---- MODULE Spec2Model ----
(***************************************************************************)
(* A model of dumbcas: the content addressed store (CasTable), the nodes   *)
(* index (NodesTable), the hash cache, the archive pipeline (enumerator,   *)
(* hasher, archiver, coordinator), gc, fsck and restore.                   *)
(*                                                                         *)
(* Strings of the program are modelled by structured values:               *)
(*   - a path is the sequence of its segments, <<"a", "x">> for a/x;       *)
(*   - the bytes of a file are a sequence of numbers;                      *)
(*   - the bytes of an object are a record [kind, raw, tree]: raw file     *)
(*     bytes, the JSON text of an Entry tree, or a truncated JSON text;    *)
(*   - a hex SHA-1 is the record [hex |-> bytes] of the bytes it is the    *)
(*     digest of (SHA-1 is taken to be collision free); the empty string   *)
(*     and other names that are no SHA-1 are [hex |-> NoBytes];            *)
(*   - an Entry tree is a function from the paths of its nodes (the root   *)
(*     left out) to [sha1, size]; a node has children iff a longer path    *)
(*     of the domain extends it.                                           *)
(* Byte counters (totalSize, bytesHashed, ...) and EntryCache.LastTested   *)
(* are written by the program and read by nothing modelled here; they are  *)
(* left out.                                                               *)
(***************************************************************************)
EXTENDS Naturals, Integers, Sequences, FiniteSets, TLC

(***************************************************************************)
(* Bounds of the model.                                                    *)
(***************************************************************************)
\* Input roots listed in one .toArchive file (the file itself comes on top).
MaxInputs == 1
\* Capacity of the enumerator's output queue (128000 in the program).
EnumQueueCap == 1
\* Capacity of the hasher's output queue (4096 in the program).
HashQueueCap == 1
\* Commands and library calls in one behaviour.
MaxRuns == 4
\* I/O failures (a read, a write, an open that fails) in one behaviour.
MaxFaults == 1
\* Seconds the wall clock advances in one behaviour.
MaxTime == 1

\* Bits of the int suffix of nodesTable.AddEntry (64 in the program).
SuffixBits == 2

\* done := make(chan bool, 3): one slot per stage.
NbStages == 3

(***************************************************************************)
(* Bytes, hashes, Entry trees.                                             *)
(***************************************************************************)
EmptyTree == <<>>

NoBytes == [kind |-> "none", raw |-> <<>>, tree |-> EmptyTree]

\* The bytes of a plain file.
RawData(b) == [kind |-> "raw", raw |-> b, tree |-> EmptyTree]

\* The empty string as a hash.
EmptySha1 == [hex |-> NoBytes]

\* sha1Bytes, sha1File: the hex digest of content.
Sha1Bytes(content) == [hex |-> content]

\* casTable.validPath: ^[a-f0-9]{40}$.
validPath(hash) == hash.hex.kind # "none"

EmptyEntry == [sha1 |-> EmptySha1, size |-> 0]

\* json.Marshal(entryRoot): the omitempty fields (h, s, f) are dropped when
\* empty, which the tree representation does not distinguish.
JsonMarshalEntry(tree) == [kind |-> "json", raw |-> <<>>, tree |-> tree]

\* A JSON text cut short: it does not decode.
JsonCut(tree) == [kind |-> "cut", raw |-> <<>>, tree |-> tree]

\* json.Unmarshal into an Entry succeeds on the JSON text of an Entry only.
DecodesAsEntry(content) == content.kind = "json"

Prefixes(p) == {SubSeq(p, 1, k) : k \in 1..Len(p)}

IsPrefix(p, q) == Len(p) <= Len(q) /\ SubSeq(q, 1, Len(p)) = p

(***************************************************************************)
(* The files the archive command reads: the modelled input tree.  A file   *)
(* is [data, mtime]; its size is the length of data.  ToArchive is the     *)
(* .toArchive list file.                                                   *)
(***************************************************************************)
FileSystem ==
  (<<"a", "l">> :> [data |-> <<1>>, mtime |-> 1]) @@
  (<<"b", "l", "y">> :> [data |-> <<2>>, mtime |-> 1]) @@
  (<<"c", "x">> :> [data |-> <<1>>, mtime |-> 1]) @@
  (<<"e">> :> [data |-> <<>>, mtime |-> 0]) @@
  (<<"l">> :> [data |-> <<1, 2>>, mtime |-> 1])

ToArchive == <<"l">>

\* What a .toArchive file may list: directories, files, a missing path.
RootUniverse == {<<"a">>, <<"b">>, <<"c">>, <<"e">>, <<"m">>}

IsFile(p) == p \in DOMAIN FileSystem

IsDir(p) == \E f \in DOMAIN FileSystem : f # p /\ IsPrefix(p, f)

FilesUnder(root) == {f \in DOMAIN FileSystem : f # root /\ IsPrefix(root, f)}

RECURSIVE SetToSeq(_)
SetToSeq(S) ==
  IF S = {} THEN <<>>
  ELSE LET x == CHOOSE y \in S : TRUE IN <<x>> \o SetToSeq(S \ {x})

\* EnumerateTree(input): the files under input, in the walk's order.
EnumerateTree(input) == SetToSeq(FilesUnder(input))

\* inputItem{fullPath, relPath, os.FileInfo}
InputItem(full, rel) ==
  [fullPath |-> full, relPath |-> rel,
   size |-> Len(FileSystem[full].data), mtime |-> FileSystem[full].mtime]

\* relPath := item.FullPath[len(input)+1:]
RelPathInDir(input, full) == SubSeq(full, Len(input) + 1, Len(full))

\* relPath := path.Base(input)
PathBase(input) == <<input[Len(input)]>>

(***************************************************************************)
(* CasTable (local): cas maps the name of each stored object to its bytes. *)
(* An operation that does I/O yields the set of its possible outcomes.     *)
(***************************************************************************)
\* What io.Copy may leave behind when the read or the write fails part way.
Partial(content) ==
  CASE content.kind = "raw" ->
         {RawData(SubSeq(content.raw, 1, k)) : k \in 0..(Len(content.raw) - 1)}
    [] content.kind = "json" -> {JsonCut(content.tree)}
    [] OTHER -> {}

\* An AddEntry that reports success and stores nothing.
casAddEntryLost(c, source, hash) == {[err |-> "nil", cas |-> c]}

\* casTable.AddEntry(source, hash): O_EXCL create, then io.Copy.  err is
\* "nil", "exist" (os.IsExist) or "error".
casAddEntry(c, source, hash) ==
  IF ~validPath(hash) THEN {[err |-> "error", cas |-> c]}
  ELSE IF hash \in DOMAIN c THEN {[err |-> "exist", cas |-> c]}
  ELSE {[err |-> "nil", cas |-> c @@ (hash :> source)],
        [err |-> "error", cas |-> c]}
       \cup {[err |-> "error", cas |-> c @@ (hash :> p)] : p \in Partial(source)}

\* An Open that hands out a stream for any name.
casOpenAnything(c, hash) == [err |-> FALSE, data |-> NoBytes]

\* casTable.Open(hash): [err, data].
casOpen(c, hash) ==
  IF validPath(hash) /\ hash \in DOMAIN c
  THEN [err |-> FALSE, data |-> c[hash]]
  ELSE [err |-> TRUE, data |-> NoBytes]

\* An AddBytes that writes the object again whether it is there or not.
AddBytesBlind(c, data) ==
  {[hash |-> Sha1Bytes(data), err |-> "nil", cas |-> (Sha1Bytes(data) :> data) @@ c]}

\* AddBytes(c, data)
AddBytes(c, data) ==
  {[hash |-> Sha1Bytes(data), err |-> o.err, cas |-> o.cas] :
     o \in casAddEntry(c, data, Sha1Bytes(data))}

(***************************************************************************)
(* EntryCache: a function from paths to [Sha1, Size, Timestamp].           *)
(***************************************************************************)
EmptyCache == <<>>

EmptyEntryCache == [Sha1 |-> EmptySha1, Size |-> 0, Timestamp |-> 0]

\* FindInCache(c, itemPath): the cache with every node down to itemPath
\* created when missing; the caller's record is the one at itemPath.
FindInCache(cache, itemPath) ==
  [q \in DOMAIN cache \cup Prefixes(itemPath) |->
     IF q \in DOMAIN cache THEN cache[q] ELSE EmptyEntryCache]

\* sha1FilePath(item.fullPath)
sha1FilePath(fullPath) == Sha1Bytes(RawData(FileSystem[fullPath].data))

\* An updateFile that trusts no record: it reads and hashes every file.
updateFileAlways(rec, item) ==
  {[wasHashed |-> FALSE, err |-> TRUE, rec |-> rec],
   [wasHashed |-> TRUE, err |-> FALSE,
    rec |-> [Sha1 |-> Sha1Bytes(RawData(FileSystem[item.fullPath].data)),
             Size |-> item.size, Timestamp |-> item.mtime]]}

\* updateFile(cache, item): the outcomes [wasHashed, err, rec].
updateFile(rec, item) ==
  IF rec.Size = item.size /\ rec.Timestamp = item.mtime
  THEN {[wasHashed |-> FALSE, err |-> FALSE, rec |-> rec]}
  ELSE {[wasHashed |-> FALSE, err |-> TRUE, rec |-> rec],
        [wasHashed |-> TRUE, err |-> FALSE,
         rec |-> [Sha1 |-> sha1FilePath(item.fullPath), Size |-> item.size,
                  Timestamp |-> item.mtime]]}

\* itemToArchive{fullPath, relPath, sha1, size}
ItemToArchive(item, sha1) ==
  [fullPath |-> item.fullPath, relPath |-> item.relPath, sha1 |-> sha1,
   size |-> item.size]

\* What tells an item of the pipeline from another: fullPath and relPath,
\* the fields inputItem and itemToArchive share.
ItemPaths(item) == <<item.fullPath, item.relPath>>

\* makeEntry(root, item)
makeEntry(root, item) ==
  [q \in DOMAIN root \cup Prefixes(item.relPath) |->
     IF q = item.relPath THEN [sha1 |-> item.sha1, size |-> item.size]
     ELSE IF q \in DOMAIN root THEN root[q] ELSE EmptyEntry]

(***************************************************************************)
(* NodesTable (local).  A file of the nodes directory is addressed by      *)
(* [depth, dir, t, label, sfx]: depth leading trash/ segments, then either *)
(* the month directory and the name <host>_<t>_<label>(<sfx>), or tags/    *)
(* and the label.  A file is [kind, entry, t, sfx]: the JSON of a Node     *)
(* with its Entry hash, a JSON text cut short, or a symlink to the month   *)
(* file (t, sfx) relative to the directory the link is in.                 *)
(***************************************************************************)
MonthPath(depth, t, label, sfx) ==
  [depth |-> depth, dir |-> "month", t |-> t, label |-> label, sfx |-> sfx]

TagPath(depth, label) ==
  [depth |-> depth, dir |-> "tags", t |-> 0, label |-> label, sfx |-> 0]

NodeFile(entrySha1) == [kind |-> "node", entry |-> entrySha1, t |-> 0, sfx |-> 0]

CutNodeFile == [kind |-> "cut", entry |-> EmptySha1, t |-> 0, sfx |-> 0]

SymlinkFile(t, sfx) == [kind |-> "link", entry |-> EmptySha1, t |-> t, sfx |-> sfx]

EmptyDir == <<>>

\* filepath.Base(relPath)
BaseIsTrash(p) == p.dir = "tags" /\ p.label = "trash"

\* A create that is not exclusive: the first name tried is taken.
FirstSuffixTried(n, t, label, sfx) == sfx

\* The first suffix the exclusive create succeeds with.
RECURSIVE FirstFreeSuffix(_, _, _, _)
FirstFreeSuffix(n, t, label, sfx) ==
  IF MonthPath(0, t, label, sfx) \in DOMAIN n
  THEN FirstFreeSuffix(n, t, label, sfx + 1)
  ELSE sfx

\* f with key k bound to v, replacing any earlier binding.
Put(f, k, v) == (k :> v) @@ f

\* f without key k.
Drop(f, k) == [x \in DOMAIN f \ {k} |-> f[x]]

\* An AddEntry that writes the node under the base name, suffix or not.
nodesAddEntryInPlace(n, entrySha1, label, t) ==
  {[err |-> FALSE, name |-> MonthPath(0, t, label, 0),
    nodes |-> Put(Put(n, MonthPath(0, t, label, 0), NodeFile(entrySha1)),
                  TagPath(0, label), SymlinkFile(t, 0))]}

\* nodesTable.AddEntry(node, name) at time t: the outcomes [err, name, nodes],
\* name being the path of the node file the suffix loop created.
nodesAddEntry(n, entrySha1, label, t) ==
  LET sfx == FirstFreeSuffix(n, t, label, 0)
      nodePath == MonthPath(0, t, label, sfx)
      written == Put(n, nodePath, NodeFile(entrySha1))
  IN {[err |-> TRUE, name |-> nodePath, nodes |-> Put(n, nodePath, CutNodeFile)],
      [err |-> FALSE, name |-> nodePath,
       nodes |-> Put(written, TagPath(0, label), SymlinkFile(t, sfx))],
      [err |-> FALSE, name |-> nodePath,
       nodes |-> Put(written, TagPath(0, label), NodeFile(entrySha1))],
      [err |-> TRUE, name |-> nodePath,
       nodes |-> Put(written, TagPath(0, label), CutNodeFile)]}

\* nodesTable.AddEntry once os.OpenFile has created the node file under
\* the suffix sfx: the write of the node, then the tag.
nodesWriteAt(n, entrySha1, label, t, sfx) ==
  LET nodePath == MonthPath(0, t, label, sfx)
      written == Put(n, nodePath, NodeFile(entrySha1))
  IN {[err |-> TRUE, name |-> nodePath, nodes |-> Put(n, nodePath, CutNodeFile)],
      [err |-> FALSE, name |-> nodePath,
       nodes |-> Put(written, TagPath(0, label), SymlinkFile(t, sfx))],
      [err |-> FALSE, name |-> nodePath,
       nodes |-> Put(written, TagPath(0, label), NodeFile(entrySha1))],
      [err |-> TRUE, name |-> nodePath,
       nodes |-> Put(written, TagPath(0, label), CutNodeFile)]}

\* nodesTable.Enumerate(): every file under the nodes directory whose base
\* name is not "trash".
nodesEnumerate(n) == {p \in DOMAIN n : ~BaseIsTrash(p)}

\* A link that leads to the first node of its second, whatever its target.
LinkTargetFirst(p, file) == MonthPath(p.depth, file.t, p.label, 0)

\* os.Open follows a symlink, relative to the directory the link is in.
LinkTarget(p, file) == MonthPath(p.depth, file.t, p.label, file.sfx)

\* nodesTable.Open(item) then LoadReaderAsJSON into a Node: the file read,
\* or CutNodeFile when the open or the decoding fails.
nodesLoad(n, p) ==
  IF p \notin DOMAIN n THEN CutNodeFile
  ELSE IF n[p].kind = "link"
       THEN IF LinkTarget(p, n[p]) \in DOMAIN n /\ n[LinkTarget(p, n[p])].kind = "node"
            THEN n[LinkTarget(p, n[p])] ELSE CutNodeFile
       ELSE n[p]

\* A Remove that leaves the node where it is.
nodesRemoveNothing(n, p) == [err |-> FALSE, nodes |-> n]

\* trash.move(relPath) on the nodes directory: os.Rename under trash/.
nodesRemove(n, p) ==
  IF p \notin DOMAIN n THEN [err |-> TRUE, nodes |-> n]
  ELSE [err |-> FALSE,
        nodes |-> Put(Drop(n, p), [p EXCEPT !.depth = p.depth + 1], n[p])]

\* A Remove that leaves the object where it is.
casRemoveNothing(c, tr, hash) == [err |-> FALSE, cas |-> c, trash |-> tr]

\* casTable.Remove(hash): [err, cas, trash].
casRemove(c, tr, hash) ==
  IF ~validPath(hash) \/ hash \notin DOMAIN c
  THEN [err |-> TRUE, cas |-> c, trash |-> tr]
  ELSE [err |-> FALSE, cas |-> Drop(c, hash), trash |-> Put(tr, hash, c[hash])]

(***************************************************************************)
(* gc, fsck, restore as functions of the store.                            *)
(***************************************************************************)
\* An I/O failure of casTable.Enumerate: none, the cas directory cannot be
\* listed (root), or the bucket holding the hashes of unread cannot.
NoEnumFailure == [kind |-> "none", unread |-> {}]

CasEnumFailures(c) ==
  {NoEnumFailure, [kind |-> "root", unread |-> DOMAIN c]}
  \cup {[kind |-> "bucket", unread |-> {h}] : h \in DOMAIN c}

\* casTable.Enumerate(): the hashes yielded, whether an Error item is
\* yielded, whether SetFsckBit is called.
casEnumerate(c, failure) ==
  [items |-> IF failure.kind \in {"root", "bucket"}
             THEN DOMAIN c \ failure.unread ELSE DOMAIN c,
   error |-> failure.kind \in {"root", "bucket"},
   setFsck |-> failure.kind = "bucket"]

\* An Enumerate that also walks the trash of the CAS.
casYieldTrash(c, tr, failure) ==
  SetToSeq(casEnumerate(c, failure).items) \o SetToSeq(DOMAIN tr)

\* The items casTable.Enumerate() sends on its channel, in the order of the
\* two directory listings; the entry trash of the cas directory is skipped.
casYield(c, tr, failure) == SetToSeq(casEnumerate(c, failure).items)

\* What the cas directory holds besides its buckets, its trash and the
\* objects: dir the misnamed paths under cas/, trash those under cas/trash.
NoStrays == [dir |-> {}, trash |-> {}]

\* const needFsckName: the flag file, an entry of the cas directory.
needFsckName == "need_fsck"

\* The misnamed paths of the model: a directory with files in it among the
\* buckets (readDirNames(casDir) returns its name, rePrefix rejects it), and
\* a file of a bucket whose name reRest rejects.
StrayDirs == {"tmp"}

StrayFiles == {"000/0"}

StrayNames == StrayDirs \cup StrayFiles

\* trash.move(relPath) of a misnamed path succeeds: os.Rename replaces a
\* file, and fails on a directory that is not empty.
trashMoves(st, name) == ~(name \in StrayDirs /\ name \in st.trash)

\* casTable.Enumerate(), the paths that match neither rePrefix nor reRest:
\* trash.move, its error dropped, then SetFsckBit for each, the flag file
\* included when it was there as the directory was read.
casQuarantine(st, flag, failure) ==
  LET listed == IF failure.kind = "root" THEN {}
                ELSE st.dir \cup (IF flag THEN {needFsckName} ELSE {})
      moved == {name \in listed : trashMoves(st, name)}
  IN [strays |-> [dir |-> st.dir \ moved, trash |-> st.trash \cup moved],
      setFsck |-> listed # {}]

\* What the Enumerate of a gc run moves: nothing when Parse refuses the
\* store (the flag is set), and any part of the misnamed paths when gc
\* returns on an Error item, the enumerating goroutine left where it was.
gcQuarantines(st, flag, failure) ==
  IF flag \/ failure.kind = "root" THEN {[strays |-> st, setFsck |-> FALSE]}
  ELSE IF failure.kind = "none" THEN {casQuarantine(st, flag, failure)}
  ELSE {LET q == casQuarantine([dir |-> m, trash |-> st.trash], flag, NoEnumFailure)
        IN [strays |-> [dir |-> q.strays.dir \cup (st.dir \ m),
                        trash |-> q.strays.trash],
            setFsck |-> q.setFsck] : m \in SUBSET st.dir}

\* The I/O failures of a fsck run: those of Enumerate, or cas.Open or
\* sha1Reader failing on an object, unread being that object and the ones
\* Enumerate yields after it.
FsckFailures(c) ==
  CasEnumFailures(c)
  \cup {[kind |-> "read", unread |-> S] : S \in (SUBSET DOMAIN c) \ {{}}}

\* LoadEntry(cas, hash) succeeds: the object opens and decodes.
LoadsAsEntry(c, hash) ==
  validPath(hash) /\ hash \in DOMAIN c /\ DecodesAsEntry(c[hash])

\* A gc that takes no mark from the tree of an Entry.
tagNothing(tree) == {}

\* tagRecurse(entries, entry): every non-empty sha1 of the tree.
tagRecurse(tree) == {tree[q].sha1 : q \in DOMAIN tree} \ {EmptySha1}

\* The marks gc takes from the node at p: entries[node.Entry] = true, then
\* tagRecurse on the loaded Entry.
gcMarks(c, n, p) ==
  {nodesLoad(n, p).entry} \cup tagRecurse(c[nodesLoad(n, p).entry].tree)

\* A gc that also opens every leaf of the Entry it loads.
gcNodeFailsOnLeaf(c, n, p) ==
  \/ nodesLoad(n, p).kind # "node"
  \/ ~LoadsAsEntry(c, nodesLoad(n, p).entry)
  \/ ~(tagRecurse(c[nodesLoad(n, p).entry].tree) \subseteq DOMAIN c)

\* gc fails on the node at p: it does not open or decode (SetFsckBit), or
\* LoadEntry fails (SetFsckBit inside LoadEntry).
gcNodeFails(c, n, p) ==
  nodesLoad(n, p).kind # "node" \/ ~LoadsAsEntry(c, nodesLoad(n, p).entry)

RECURSIVE casRemoveAll(_, _, _)
casRemoveAll(c, tr, hashes) ==
  IF hashes = {} THEN [err |-> FALSE, cas |-> c, trash |-> tr]
  ELSE LET h == CHOOSE x \in hashes : TRUE
           r == casRemove(c, tr, h)
       IN IF r.err THEN r ELSE casRemoveAll(r.cas, r.trash, hashes \ {h})

\* A gc that returns the error of a node or of an Entry that does not load
\* without setting the fsck bit.
gcMainFlagUnset(c, tr, n, flag, failure) ==
  LET listed == casEnumerate(c, failure)
      items == nodesEnumerate(n)
      tagged == UNION {gcMarks(c, n, p) : p \in items}
      swept == casRemoveAll(c, tr, listed.items \ tagged)
  IN IF flag
     THEN [err |-> TRUE, cas |-> c, trash |-> tr, needFsck |-> flag]
     ELSE IF listed.error
     THEN [err |-> TRUE, cas |-> c, trash |-> tr, needFsck |-> TRUE]
     ELSE IF \E p \in items : gcNodeFails(c, n, p)
     THEN [err |-> TRUE, cas |-> c, trash |-> tr, needFsck |-> FALSE]
     ELSE [err |-> swept.err, cas |-> swept.cas, trash |-> swept.trash,
           needFsck |-> swept.err]

\* gcRun.main: [err, cas, trash, needFsck].
gcMain(c, tr, n, flag, failure) ==
  LET listed == casEnumerate(c, failure)
      items == nodesEnumerate(n)
      tagged == UNION {gcMarks(c, n, p) : p \in items}
      swept == casRemoveAll(c, tr, listed.items \ tagged)
  IN IF flag
     THEN [err |-> TRUE, cas |-> c, trash |-> tr, needFsck |-> flag]
     ELSE IF listed.error
     THEN [err |-> TRUE, cas |-> c, trash |-> tr, needFsck |-> TRUE]
     ELSE IF \E p \in items : gcNodeFails(c, n, p)
     THEN [err |-> TRUE, cas |-> c, trash |-> tr, needFsck |-> TRUE]
     ELSE [err |-> swept.err, cas |-> swept.cas, trash |-> swept.trash,
           needFsck |-> swept.err]

\* gcRun.main when the interrupt is set while it runs: casTable.Enumerate
\* breaks out of its loop (interrupt.IsSet) and nodesTable.Enumerate closes
\* its channel (case <-interrupt.Channel), so the two range loops end on
\* seen, a part of the hashes, and visited, a part of the nodes, the order
\* of the listings being the file system's.  No Error item is sent, and
\* main does not look at the interrupt: the sweep follows.
gcMainInterrupted(c, tr, n, flag, seen, visited) ==
  LET tagged == UNION {gcMarks(c, n, p) : p \in visited}
      swept == casRemoveAll(c, tr, seen \ tagged)
  IN IF flag
     THEN [err |-> TRUE, cas |-> c, trash |-> tr, needFsck |-> flag]
     ELSE IF \E p \in visited : gcNodeFails(c, n, p)
     THEN [err |-> TRUE, cas |-> c, trash |-> tr, needFsck |-> TRUE]
     ELSE [err |-> swept.err, cas |-> swept.cas, trash |-> swept.trash,
           needFsck |-> swept.err]

\* A nodes pass that rejects only the nodes whose Entry field is no hash.
fsckNodeCorruptedEntryOnly(n, p) ==
  nodesLoad(n, p).kind = "node" /\ ~validPath(nodesLoad(n, p).entry)

\* The fsck nodes pass rejects the node at p.
fsckNodeCorrupted(n, p) ==
  nodesLoad(n, p).kind # "node" \/ ~validPath(nodesLoad(n, p).entry)

\* The fsck nodes pass over the enumerated items, in the walk's order:
\* [nodes, corrupted], corrupted adding up to the count the pass logs.
RECURSIVE fsckNodes(_, _, _)
fsckNodes(n, items, corrupted) ==
  IF items = <<>> THEN [nodes |-> n, corrupted |-> corrupted]
  ELSE IF fsckNodeCorrupted(n, Head(items))
       THEN fsckNodes(nodesRemove(n, Head(items)).nodes, Tail(items), corrupted + 1)
       ELSE fsckNodes(n, Tail(items), corrupted)

\* A fsck that logs a failed read and goes on to the next object.
fsckMainSkipsUnread(c, tr, n, failure) ==
  LET listed == casEnumerate(c, failure)
      read == IF failure.kind = "read"
              THEN listed.items \ failure.unread ELSE listed.items
      corrupted == {h \in read : Sha1Bytes(casOpen(c, h).data) # h}
      swept == casRemoveAll(c, tr, corrupted)
      pass == fsckNodes(n, SetToSeq(nodesEnumerate(n)), 0)
  IN [err |-> swept.err, cas |-> swept.cas, trash |-> swept.trash,
      nodes |-> pass.nodes, needFsck |-> FALSE,
      casCorrupted |-> Cardinality(corrupted),
      nodesCorrupted |-> pass.corrupted]

\* fsckRun.main: [err, cas, trash, nodes, needFsck] and the two corrupted
\* counts it logs.  Every file the two passes open stays open until main
\* returns (the Close is deferred); file descriptors are taken not to run
\* out.
fsckMain(c, tr, n, failure) ==
  LET listed == casEnumerate(c, failure)
      read == IF failure.kind = "read"
              THEN listed.items \ failure.unread ELSE listed.items
      corrupted == {h \in read : Sha1Bytes(casOpen(c, h).data) # h}
      swept == casRemoveAll(c, tr, corrupted)
      pass == fsckNodes(n, SetToSeq(nodesEnumerate(n)), 0)
  IN IF swept.err \/ failure.kind = "read"
     THEN [err |-> TRUE, cas |-> swept.cas, trash |-> swept.trash, nodes |-> n,
           needFsck |-> listed.setFsck, casCorrupted |-> Cardinality(corrupted),
           nodesCorrupted |-> 0]
     ELSE [err |-> FALSE, cas |-> swept.cas, trash |-> swept.trash,
           nodes |-> pass.nodes, needFsck |-> FALSE,
           casCorrupted |-> Cardinality(corrupted),
           nodesCorrupted |-> pass.corrupted]

\* restoreEntry writes the leaf at q: the object opens, and no directory of
\* the way down to q was itself written as a file (MkdirAll).
RECURSIVE restoreWrites(_, _, _)
restoreWrites(tree, c, q) ==
  /\ validPath(tree[q].sha1)
  /\ tree[q].sha1 \in DOMAIN c
  /\ \A k \in 1..(Len(q) - 1) : ~restoreWrites(tree, c, SubSeq(q, 1, k))

\* The bytes io.Copy writes for an object.
ObjectBytes(content) == content.raw

\* restoreEntry(l, cas, entry, root): the files written under root, the
\* number written with the recorded size, whether an error is returned.
restoreEntry(tree, c) ==
  LET written == {q \in DOMAIN tree : restoreWrites(tree, c, q)}
      leaves == {q \in DOMAIN tree : tree[q].sha1 # EmptySha1}
      good == {q \in written : Len(ObjectBytes(c[tree[q].sha1])) = tree[q].size}
  IN [out |-> [q \in written |-> ObjectBytes(c[tree[q].sha1])],
      count |-> Cardinality(good),
      err |-> good # leaves]

\* restoreRun.main(nodeArg): [err, out, count, setFsck].
restoreMain(c, n, p) ==
  IF nodesLoad(n, p).kind # "node"
  THEN [err |-> TRUE, out |-> <<>>, count |-> 0, setFsck |-> FALSE]
  ELSE IF ~LoadsAsEntry(c, nodesLoad(n, p).entry)
  THEN [err |-> TRUE, out |-> <<>>, count |-> 0, setFsck |-> TRUE]
  ELSE LET r == restoreEntry(c[nodesLoad(n, p).entry].tree, c)
       IN [err |-> r.err, out |-> r.out, count |-> r.count, setFsck |-> FALSE]

\* What the directory given as -out may hold before the restore: one file.
ExistingOuts ==
  {(<<"l">> :> <<9>>), (<<"l", "y">> :> <<9>>), (<<"x">> :> <<9>>)}

\* The path q is there among files: a file, or a directory on the way to one.
IsThere(files, q) == \E r \in files : IsPrefix(q, r)

\* A restore that opens its output files without O_EXCL.
RECURSIVE restoreCreatesOver(_, _, _, _)
restoreCreatesOver(tree, c, existing, q) ==
  /\ validPath(tree[q].sha1)
  /\ tree[q].sha1 \in DOMAIN c
  /\ \A r \in DOMAIN existing : r # q => ~IsPrefix(q, r)
  /\ \A k \in 1..(Len(q) - 1) :
       /\ SubSeq(q, 1, k) \notin DOMAIN existing
       /\ ~restoreCreatesOver(tree, c, existing, SubSeq(q, 1, k))

\* restoreEntry creates the leaf at q in a directory that holds existing:
\* cas.Open succeeds, MkdirAll finds no file on the way down to q, and the
\* O_EXCL create finds nothing at q.
RECURSIVE restoreCreates(_, _, _, _)
restoreCreates(tree, c, existing, q) ==
  /\ validPath(tree[q].sha1)
  /\ tree[q].sha1 \in DOMAIN c
  /\ ~IsThere(DOMAIN existing, q)
  /\ \A k \in 1..(Len(q) - 1) :
       /\ SubSeq(q, 1, k) \notin DOMAIN existing
       /\ ~restoreCreates(tree, c, existing, SubSeq(q, 1, k))

\* restoreEntry(l, cas, entry, root) on a directory that holds existing:
\* out is what the directory holds afterwards, count the number returned,
\* failed the leaves an error was logged for, firsts the leaves whose error
\* may be the one returned (a node is restored before its children, the
\* children in the order of the map).
restoreEntryOnto(tree, c, existing) ==
  LET created == {q \in DOMAIN tree : restoreCreates(tree, c, existing, q)}
      leaves == {q \in DOMAIN tree : tree[q].sha1 # EmptySha1}
      good == {q \in created : Len(ObjectBytes(c[tree[q].sha1])) = tree[q].size}
      failed == leaves \ good
  IN [out |-> [q \in DOMAIN existing \cup created |->
                 IF q \in created THEN ObjectBytes(c[tree[q].sha1])
                 ELSE existing[q]],
      count |-> Cardinality(good),
      failed |-> failed,
      firsts |-> {q \in failed : \A r \in failed : r # q => ~IsPrefix(r, q)}]

(***************************************************************************)
(* State.                                                                  *)
(***************************************************************************)
VARIABLES
  interrupted,    \* ctrl_c.go: the interrupt latch of the running process
  stats,          \* Stats: the counters of the archive run
  inputs,         \* main: the lines of the list file, the file itself last
  enum,           \* the enumerateInputs goroutine
  items_to_scan,  \* channel enumerator -> hasher: [buf, closed]
  hash,           \* the hashInputs goroutine
  items_hashed,   \* channel hasher -> archiver: [buf, closed]
  arch,           \* the archiveInputs goroutine
  entry,          \* channel archiver -> main (unbuffered): [closed]
  coord,          \* archiveRun.main
  done,           \* number of signals buffered in the done channel
  cache,          \* the EntryCache
  cas,            \* the CAS directory: hash -> bytes
  casTrash,       \* cas/trash: the objects removed
  casStrays,      \* what else cas/ and cas/trash hold: [dir, trash]
  needFsck,       \* the need_fsck flag file
  nodes,          \* the nodes directory
  now,            \* the wall clock, in seconds
  addEntry,       \* nodesTable.AddEntry: the suffix loop
  runs,           \* commands and library calls started so far
  faults,         \* I/O failures so far
  last            \* what the last command did (history)

vars == <<interrupted, stats, inputs, enum, items_to_scan, hash, items_hashed,
          arch, entry, coord, done, cache, cas, casTrash, casStrays, needFsck,
          nodes,
          now, addEntry, runs, faults, last>>

storeVars == <<cas, casTrash, casStrays, needFsck, nodes>>

ZeroStats ==
  [errors |-> 0, interrupted |-> 0, found |-> 0, nbHashed |-> 0,
   nbNotHashed |-> 0, nbArchived |-> 0, nbNotArchived |-> 0]

NoInputItem == [fullPath |-> <<>>, relPath |-> <<>>, size |-> 0, mtime |-> 0]

NoItemToArchive ==
  [fullPath |-> <<>>, relPath |-> <<>>, sha1 |-> EmptySha1, size |-> 0]

EmptyChan == [buf |-> <<>>, closed |-> FALSE]

IdleEnum == [pc |-> "idle", i |-> 1, walk |-> <<>>, item |-> NoInputItem, cont |-> "idle"]

IdleHash == [pc |-> "idle", item |-> NoItemToArchive, cont |-> "idle"]

IdleArch ==
  [pc |-> "idle", entryRoot |-> EmptyTree, entrySha1 |-> EmptySha1, cont |-> "idle"]

IdleCoord == [pc |-> "idle", err |-> "nil", got |-> 0]

\* nodesTable.AddEntry is not running.  pc: try (the top of the for loop),
\* returned; suffix, name, entry and t are the locals suffix, name,
\* node.Entry and now; refused tells that os.OpenFile fails on every name
\* of this call for a reason that is not os.IsExist (the name is too long
\* for the file system, the month directory is not writable).
IdleAddEntry ==
  [pc |-> "idle", suffix |-> 0, name |-> "l", entry |-> EmptySha1, t |-> 0,
   refused |-> FALSE]

NoCommand ==
  [cmd |-> "none", err |-> FALSE, exitCode |-> 0, casBefore |-> <<>>,
   trashBefore |-> <<>>, nodesBefore |-> EmptyDir, flagBefore |-> FALSE,
   arg |-> TagPath(0, "l"), sha1 |-> EmptySha1, out |-> <<>>, count |-> 0,
   failure |-> NoEnumFailure, added |-> FALSE, data |-> NoBytes,
   res |-> "nil", casCorrupted |-> 0, nodesCorrupted |-> 0, faultsBefore |-> 0,
   straysBefore |-> NoStrays, yielded |-> <<>>, existing |-> <<>>,
   failed |-> {}, firstErr |-> <<>>, emitted |-> <<>>, released |-> <<>>,
   received |-> <<>>]

\* The record of a command that starts in the current store.
Command(cmd) ==
  [NoCommand EXCEPT !.cmd = cmd, !.casBefore = cas, !.trashBefore = casTrash,
                    !.nodesBefore = nodes, !.flagBefore = needFsck,
                    !.faultsBefore = faults, !.straysBefore = casStrays]

Init ==
  /\ interrupted = FALSE
  /\ stats = ZeroStats
  /\ inputs = <<>>
  /\ enum = IdleEnum
  /\ items_to_scan = EmptyChan
  /\ hash = IdleHash
  /\ items_hashed = EmptyChan
  /\ arch = IdleArch
  /\ entry = [closed |-> FALSE]
  /\ coord = IdleCoord
  /\ done = 0
  /\ cache = EmptyCache
  /\ cas = <<>>
  /\ casTrash = <<>>
  /\ casStrays = NoStrays
  /\ needFsck = FALSE
  /\ nodes = EmptyDir
  /\ now = 0
  /\ addEntry = IdleAddEntry
  /\ runs = 0
  /\ faults = 0
  /\ last = NoCommand

\* No command is running: the shell is at the prompt.
AtPrompt == coord.pc \in {"idle", "returned"}

Add(field) == stats' = [stats EXCEPT ![field] = @ + 1]

\* An I/O failure is drawn only while the budget lasts.
Fault(failed) ==
  /\ failed => faults < MaxFaults
  /\ faults' = IF failed THEN faults + 1 ELSE faults

\* casAddEntry failed on I/O (a name that is no hash fails by itself).
AddEntryFailed(o, sha1) == o.err = "error" /\ validPath(sha1)

RECURSIVE SeqsUpTo(_, _)
SeqsUpTo(S, n) ==
  IF n = 0 THEN {<<>>}
  ELSE SeqsUpTo(S, n - 1) \cup
       {Append(q, x) : q \in {r \in SeqsUpTo(S, n - 1) : Len(r) = n - 1}, x \in S}

(***************************************************************************)
(* archiveRun.Run / archiveRun.main up to the start of the goroutines.     *)
(***************************************************************************)
\* Run: HandleCtrlC(); main: Parse(a, true), readFileAsStrings, append the
\* list file, start the three stages.  cacheLoaded is LoadCache's outcome.
ArchiveStart(lines, cacheLoaded) ==
  /\ AtPrompt
  /\ runs < MaxRuns
  /\ runs' = runs + 1
  /\ Fault(~cacheLoaded)
  /\ interrupted' = FALSE
  /\ stats' = ZeroStats
  /\ inputs' = Append(lines, ToArchive)
  /\ enum' = [IdleEnum EXCEPT !.pc = "next"]
  /\ hash' = IF cacheLoaded THEN [IdleHash EXCEPT !.pc = "select"]
             ELSE [IdleHash EXCEPT !.pc = "log", !.cont = "select"]
  /\ cache' = IF cacheLoaded THEN cache ELSE EmptyCache
  /\ arch' = [IdleArch EXCEPT !.pc = "select"]
  /\ coord' = [IdleCoord EXCEPT !.pc = "loop"]
  /\ items_to_scan' = EmptyChan
  /\ items_hashed' = EmptyChan
  /\ entry' = [closed |-> FALSE]
  /\ done' = 0
  /\ last' = Command("archive")
  /\ UNCHANGED <<now, addEntry>>
  /\ UNCHANGED storeVars

\* main fails before any goroutine starts (the list file cannot be read).
ArchiveFailsEarly ==
  /\ AtPrompt
  /\ runs < MaxRuns
  /\ runs' = runs + 1
  /\ coord' = [IdleCoord EXCEPT !.pc = "returned", !.err = "read"]
  /\ last' = [Command("archive") EXCEPT !.err = TRUE, !.exitCode = 1]
  /\ interrupted' = FALSE
  /\ stats' = ZeroStats
  /\ inputs' = <<>>
  /\ enum' = IdleEnum
  /\ hash' = IdleHash
  /\ arch' = IdleArch
  /\ items_to_scan' = EmptyChan
  /\ items_hashed' = EmptyChan
  /\ entry' = [closed |-> FALSE]
  /\ done' = 0
  /\ UNCHANGED <<cache, now, addEntry, faults>>
  /\ UNCHANGED storeVars

\* ctrl_c.go: the signal handler sets the latch and feeds InterruptedChannel.
Interrupt ==
  /\ coord.pc \in {"loop", "wait"}
  /\ ~interrupted
  /\ interrupted' = TRUE
  /\ UNCHANGED <<stats, inputs, enum, items_to_scan, hash, items_hashed, arch,
                 entry, coord, done, cache, now, addEntry, runs, faults,
                 last>>
  /\ UNCHANGED storeVars

(***************************************************************************)
(* Stats.enumerateInputs.  pc: next (top of the for loop), walk (the       *)
(* select of the directory loop), send (blocked in c <- item), log         *)
(* (blocked in s.out <- line), exit (the deferred close and done), done.   *)
(***************************************************************************)
EnumOthers ==
  UNCHANGED <<interrupted, inputs, hash, items_hashed, arch, entry, coord,
              cache, cas, casTrash, casStrays, needFsck, nodes, now, addEntry,
              runs>>

EnumFrame == EnumOthers /\ UNCHANGED last

\* for _, input := range inputs { os.Stat(input) ... }
EnumNext ==
  /\ enum.pc = "next"
  /\ IF enum.i > Len(inputs)
     THEN /\ enum' = [enum EXCEPT !.pc = "log", !.cont = "exit"]
          /\ UNCHANGED stats
     ELSE LET input == inputs[enum.i] IN
          IF IsDir(input)
          THEN /\ enum' = [enum EXCEPT !.pc = "walk", !.walk = EnumerateTree(input)]
               /\ UNCHANGED stats
          ELSE IF IsFile(input)
          THEN /\ Add("found")
               /\ enum' = [enum EXCEPT !.pc = "send", !.cont = "next", !.i = @ + 1,
                                       !.item = InputItem(input, PathBase(input))]
          ELSE /\ Add("errors")
               /\ enum' = [enum EXCEPT !.pc = "log", !.cont = "next", !.i = @ + 1]
  /\ UNCHANGED <<items_to_scan, done, faults>>
  /\ EnumFrame

\* case <-InterruptedChannel
EnumInterrupted ==
  /\ enum.pc = "walk"
  /\ interrupted
  /\ Add("interrupted")
  /\ enum' = [enum EXCEPT !.pc = "exit"]
  /\ UNCHANGED <<items_to_scan, done, faults>>
  /\ EnumFrame

\* An enumerator that sends the files of a directory without counting them.
EnumWalkItemUncounted ==
  /\ enum.pc = "walk"
  /\ enum.walk # <<>>
  /\ enum' = [enum EXCEPT !.pc = "send", !.cont = "walk", !.walk = Tail(@),
                !.item = InputItem(Head(enum.walk),
                                   RelPathInDir(inputs[enum.i], Head(enum.walk)))]
  /\ UNCHANGED <<stats, items_to_scan, done, faults>>
  /\ EnumFrame

\* case item, ok := <-d, a file
EnumWalkItem ==
  /\ enum.pc = "walk"
  /\ enum.walk # <<>>
  /\ Add("found")
  /\ enum' = [enum EXCEPT !.pc = "send", !.cont = "walk", !.walk = Tail(@),
                !.item = InputItem(Head(enum.walk),
                                   RelPathInDir(inputs[enum.i], Head(enum.walk)))]
  /\ UNCHANGED <<items_to_scan, done, faults>>
  /\ EnumFrame

\* case item, ok := <-d, item.Error != nil: the walk stops after an error.
EnumWalkError ==
  /\ enum.pc = "walk"
  /\ enum.walk # <<>>
  /\ Fault(TRUE)
  /\ Add("errors")
  /\ enum' = [enum EXCEPT !.pc = "log", !.cont = "walk", !.walk = <<>>]
  /\ UNCHANGED <<items_to_scan, done>>
  /\ EnumFrame

\* case item, ok := <-d, !ok: the walk is over, or it saw the latch.
EnumWalkClosed ==
  /\ enum.pc = "walk"
  /\ enum.walk = <<>> \/ interrupted
  /\ enum' = [enum EXCEPT !.pc = "next", !.i = @ + 1, !.walk = <<>>]
  /\ UNCHANGED <<stats, items_to_scan, done, faults>>
  /\ EnumFrame

\* c <- inputItem{...}: blocks while the queue is full.
EnumSend ==
  /\ enum.pc = "send"
  /\ Len(items_to_scan.buf) < EnumQueueCap
  /\ items_to_scan' = [items_to_scan EXCEPT !.buf = Append(@, enum.item)]
  /\ enum' = [enum EXCEPT !.pc = enum.cont, !.item = NoInputItem]
  /\ last' = [last EXCEPT !.emitted = Append(@, ItemPaths(enum.item))]
  /\ UNCHANGED <<stats, done, faults>>
  /\ EnumOthers

\* defer: close(c); s.done <- true
EnumExit ==
  /\ enum.pc = "exit"
  /\ items_to_scan' = [items_to_scan EXCEPT !.closed = TRUE]
  /\ done' = done + 1
  /\ enum' = [enum EXCEPT !.pc = "done"]
  /\ UNCHANGED <<stats, faults>>
  /\ EnumFrame

(***************************************************************************)
(* Stats.hashInputs.  pc: select, send, log, exit, done.                   *)
(***************************************************************************)
HashOthers ==
  UNCHANGED <<interrupted, inputs, enum, arch, entry, coord, cas, casTrash, casStrays,
              needFsck, nodes, now, addEntry, runs>>

HashFrame == HashOthers /\ UNCHANGED last

\* case <-InterruptedChannel
HashInterrupted ==
  /\ hash.pc = "select"
  /\ interrupted
  /\ Add("interrupted")
  /\ hash' = [hash EXCEPT !.pc = "exit"]
  /\ UNCHANGED <<items_to_scan, items_hashed, done, cache, faults>>
  /\ HashFrame

\* A hasher that gives up at the first file it cannot read.
HashItemAborts ==
  /\ hash.pc = "select"
  /\ items_to_scan.buf # <<>>
  /\ LET item == Head(items_to_scan.buf)
         found == FindInCache(cache, item.fullPath)
     IN \E o \in updateFile(found[item.fullPath], item) :
          /\ Fault(o.err)
          /\ cache' = [found EXCEPT ![item.fullPath] = o.rec]
          /\ IF o.err
             THEN /\ Add("errors")
                  /\ hash' = [hash EXCEPT !.pc = "log", !.cont = "exit"]
             ELSE /\ Add(IF o.wasHashed THEN "nbHashed" ELSE "nbNotHashed")
                  /\ hash' = [hash EXCEPT !.pc = "send", !.cont = "select",
                                          !.item = ItemToArchive(item, o.rec.Sha1)]
  /\ items_to_scan' = [items_to_scan EXCEPT !.buf = Tail(@)]
  /\ UNCHANGED <<items_hashed, done>>
  /\ HashFrame

\* case item, ok := <-inputs, ok
HashItem ==
  /\ hash.pc = "select"
  /\ items_to_scan.buf # <<>>
  /\ LET item == Head(items_to_scan.buf)
         found == FindInCache(cache, item.fullPath)
     IN \E o \in updateFile(found[item.fullPath], item) :
          /\ Fault(o.err)
          /\ cache' = [found EXCEPT ![item.fullPath] = o.rec]
          /\ IF o.err
             THEN /\ Add("errors")
                  /\ hash' = [hash EXCEPT !.pc = "log", !.cont = "select"]
             ELSE /\ Add(IF o.wasHashed THEN "nbHashed" ELSE "nbNotHashed")
                  /\ hash' = [hash EXCEPT !.pc = "send", !.cont = "select",
                                          !.item = ItemToArchive(item, o.rec.Sha1)]
  /\ items_to_scan' = [items_to_scan EXCEPT !.buf = Tail(@)]
  /\ UNCHANGED <<items_hashed, done>>
  /\ HashFrame

\* case item, ok := <-inputs, !ok
HashClosed ==
  /\ hash.pc = "select"
  /\ items_to_scan.buf = <<>>
  /\ items_to_scan.closed
  /\ hash' = [hash EXCEPT !.pc = "log", !.cont = "exit"]
  /\ UNCHANGED <<stats, items_to_scan, items_hashed, done, cache, faults>>
  /\ HashFrame

\* A hasher that sends the list file in place of the item it hashed.
HashSendOther ==
  /\ hash.pc = "send"
  /\ Len(items_hashed.buf) < HashQueueCap
  /\ items_hashed' =
       [items_hashed EXCEPT !.buf =
          Append(@, [hash.item EXCEPT !.fullPath = ToArchive,
                                      !.relPath = PathBase(ToArchive)])]
  /\ hash' = [hash EXCEPT !.pc = hash.cont, !.item = NoItemToArchive]
  /\ last' = [last EXCEPT !.released =
                 Append(@, <<ToArchive, PathBase(ToArchive)>>)]
  /\ UNCHANGED <<stats, items_to_scan, done, cache, faults>>
  /\ HashOthers

\* c <- itemToArchive{...}: blocks while the queue is full.
HashSend ==
  /\ hash.pc = "send"
  /\ Len(items_hashed.buf) < HashQueueCap
  /\ items_hashed' = [items_hashed EXCEPT !.buf = Append(@, hash.item)]
  /\ hash' = [hash EXCEPT !.pc = hash.cont, !.item = NoItemToArchive]
  /\ last' = [last EXCEPT !.released = Append(@, ItemPaths(hash.item))]
  /\ UNCHANGED <<stats, items_to_scan, done, cache, faults>>
  /\ HashOthers

\* defer: close(c); cache.Close(); s.done <- true
\* A hasher that closes its channel and returns without the done signal.
HashExitNoDone ==
  /\ hash.pc = "exit"
  /\ items_hashed' = [items_hashed EXCEPT !.closed = TRUE]
  /\ hash' = [hash EXCEPT !.pc = "done"]
  /\ UNCHANGED <<stats, items_to_scan, cache, faults, done>>
  /\ HashFrame

HashExit ==
  /\ hash.pc = "exit"
  /\ items_hashed' = [items_hashed EXCEPT !.closed = TRUE]
  /\ done' = done + 1
  /\ hash' = [hash EXCEPT !.pc = "done"]
  /\ UNCHANGED <<stats, items_to_scan, cache, faults>>
  /\ HashFrame

(***************************************************************************)
(* Stats.archiveInputs and Stats.archiveItem.  pc: select, log, emit       *)
(* (blocked in c <- entrySha1), exit, done.                                *)
(***************************************************************************)
ArchOthers ==
  UNCHANGED <<interrupted, inputs, enum, items_to_scan, hash, coord, cache,
              casTrash, casStrays, needFsck, nodes, now, addEntry, runs>>

ArchFrame == ArchOthers /\ UNCHANGED last

\* case <-InterruptedChannel
ArchInterrupted ==
  /\ arch.pc = "select"
  /\ interrupted
  /\ Add("interrupted")
  /\ arch' = [arch EXCEPT !.pc = "exit"]
  /\ UNCHANGED <<items_hashed, entry, done, cas, faults>>
  /\ ArchFrame

\* case item, ok := <-items, ok: makeEntry(entryRoot, item), then
\* archiveItem(item, cas); opened is the outcome of os.Open(item.fullPath).
ArchItem ==
  /\ arch.pc = "select"
  /\ items_hashed.buf # <<>>
  /\ items_hashed' = [items_hashed EXCEPT !.buf = Tail(@)]
  /\ LET item == Head(items_hashed.buf)
         root == makeEntry(arch.entryRoot, item)
     IN \/ /\ Fault(TRUE)
           /\ Add("errors")
           /\ arch' = [arch EXCEPT !.entryRoot = root, !.pc = "log", !.cont = "select"]
           /\ UNCHANGED cas
        \/ \E o \in casAddEntry(cas, RawData(FileSystem[item.fullPath].data), item.sha1) :
             /\ Fault(AddEntryFailed(o, item.sha1))
             /\ cas' = o.cas
             /\ IF o.err = "exist"
                THEN /\ Add("nbNotArchived")
                     /\ arch' = [arch EXCEPT !.entryRoot = root]
                ELSE IF o.err = "nil"
                THEN /\ Add("nbArchived")
                     /\ arch' = [arch EXCEPT !.entryRoot = root]
                ELSE /\ Add("errors")
                     /\ arch' = [arch EXCEPT !.entryRoot = root, !.pc = "log",
                                             !.cont = "select"]
  /\ last' = [last EXCEPT !.received =
                 Append(@, ItemPaths(Head(items_hashed.buf)))]
  /\ UNCHANGED <<entry, done>>
  /\ ArchOthers

\* case item, ok := <-items, !ok: json.Marshal(entryRoot), AddBytes(cas, data)
ArchClosed ==
  /\ arch.pc = "select"
  /\ items_hashed.buf = <<>>
  /\ items_hashed.closed
  /\ \E o \in AddBytes(cas, JsonMarshalEntry(arch.entryRoot)) :
       /\ Fault(AddEntryFailed(o, o.hash))
       /\ cas' = o.cas
       /\ IF o.err = "exist"
          THEN /\ Add("nbNotArchived")
               /\ arch' = [arch EXCEPT !.pc = "emit", !.entrySha1 = o.hash]
          ELSE IF o.err = "nil"
          THEN /\ Add("nbArchived")
               /\ arch' = [arch EXCEPT !.pc = "emit", !.entrySha1 = o.hash]
          ELSE /\ Add("errors")
               /\ arch' = [arch EXCEPT !.pc = "log", !.cont = "exit"]
  /\ UNCHANGED <<items_hashed, entry, done>>
  /\ ArchFrame

\* defer: close(c); s.done <- true
ArchExit ==
  /\ arch.pc = "exit"
  /\ entry' = [closed |-> TRUE]
  /\ done' = done + 1
  /\ arch' = [arch EXCEPT !.pc = "done"]
  /\ UNCHANGED <<stats, items_hashed, cas, faults>>
  /\ ArchFrame

(***************************************************************************)
(* archiveRun.main: the select loop, the wait for the three done signals,  *)
(* the return; archiveRun.Run: the exit code.  pc: loop, wait, returned.   *)
(***************************************************************************)
CoordFrame ==
  UNCHANGED <<interrupted, stats, inputs, items_to_scan, items_hashed, entry,
              cache, cas, casTrash, casStrays, needFsck, now, addEntry, runs>>

\* case line := <-output: the rendezvous with the stage blocked in s.out <-.
CoordLog ==
  /\ coord.pc = "loop"
  /\ \/ /\ enum.pc = "log"
        /\ enum' = [enum EXCEPT !.pc = enum.cont]
        /\ UNCHANGED <<hash, arch>>
     \/ /\ hash.pc = "log"
        /\ hash' = [hash EXCEPT !.pc = hash.cont]
        /\ UNCHANGED <<enum, arch>>
     \/ /\ arch.pc = "log"
        /\ arch' = [arch EXCEPT !.pc = arch.cont]
        /\ UNCHANGED <<enum, hash>>
  /\ UNCHANGED <<coord, done, nodes, faults, last>>
  /\ CoordFrame

\* case <-InterruptedChannel: err = "Was interrupted."
CoordInterrupted ==
  /\ coord.pc = "loop"
  /\ interrupted
  /\ coord' = [coord EXCEPT !.pc = "wait", !.err = "interrupted"]
  /\ UNCHANGED <<enum, hash, arch, done, nodes, faults, last>>
  /\ CoordFrame

\* The error main builds when the entry channel yields no hash.
errNoEntry(s) ==
  IF s.errors # 0 THEN "errors"
  ELSE IF s.interrupted # 0 THEN "interrupted" ELSE "unexpected"

\* case item, ok := <-entry, !ok
CoordEntryClosed ==
  /\ coord.pc = "loop"
  /\ entry.closed
  /\ coord' = [coord EXCEPT !.pc = "wait", !.err = errNoEntry(stats)]
  /\ UNCHANGED <<enum, hash, arch, done, nodes, faults, last>>
  /\ CoordFrame

\* case item, ok := <-entry, item != "": the rendezvous with the archiver
\* blocked in c <- entrySha1; _, err = c.nodes.AddEntry(node, label);
\* err = errDone, and after the loop errDone becomes nil.
CoordEntry ==
  /\ coord.pc = "loop"
  /\ arch.pc = "emit"
  /\ arch' = [arch EXCEPT !.pc = "exit"]
  /\ \E o \in nodesAddEntry(nodes, arch.entrySha1, PathBase(ToArchive)[1], now) :
       /\ Fault(o.err)
       /\ nodes' = o.nodes
  /\ coord' = [coord EXCEPT !.pc = "wait", !.err = "nil"]
  /\ last' = [last EXCEPT !.sha1 = arch.entrySha1, !.added = TRUE]
  /\ UNCHANGED <<enum, hash, done>>
  /\ CoordFrame

\* for i := 0; i < 3; i++ { <-done }
CoordDone ==
  /\ coord.pc = "wait"
  /\ coord.got < NbStages
  /\ done > 0
  /\ done' = done - 1
  /\ coord' = [coord EXCEPT !.got = @ + 1]
  /\ UNCHANGED <<enum, hash, arch, nodes, faults, last>>
  /\ CoordFrame

\* What main returns after the loop and the wait.
mainReturn(err) == "nil"

\* Run: 1 when main returned an error, else 0.
RunExitCode(err) == IF err # "nil" THEN 1 ELSE 0

\* The final statistics are printed; return nil.
CoordReturn ==
  /\ coord.pc = "wait"
  /\ coord.got = NbStages
  /\ coord' = [coord EXCEPT !.pc = "returned"]
  /\ last' = [last EXCEPT !.err = mainReturn(coord.err) # "nil",
                          !.exitCode = RunExitCode(mainReturn(coord.err))]
  /\ UNCHANGED <<enum, hash, arch, done, nodes, faults>>
  /\ CoordFrame

(***************************************************************************)
(* The other commands (gc, fsck, restore) and the library calls made on    *)
(* the tables directly.  Each runs in a process of its own, started at     *)
(* the prompt; gc and fsck install no interrupt handler.                   *)
(***************************************************************************)
\* A process starts: nothing of the previous process's memory is left.
FreshProcess ==
  /\ AtPrompt
  /\ runs < MaxRuns
  /\ runs' = runs + 1
  /\ interrupted' = FALSE
  /\ stats' = ZeroStats
  /\ inputs' = <<>>
  /\ enum' = IdleEnum
  /\ hash' = IdleHash
  /\ arch' = IdleArch
  /\ coord' = IdleCoord
  /\ items_to_scan' = EmptyChan
  /\ items_hashed' = EmptyChan
  /\ entry' = [closed |-> FALSE]
  /\ done' = 0
  /\ UNCHANGED <<cache, now, addEntry>>

\* A gc whose Parse lets it run with the fsck flag set, as the other
\* commands do.
GcBypassFsck(failure) ==
  /\ FreshProcess
  /\ Fault(failure.kind # "none")
  /\ LET r == gcMain(cas, casTrash, nodes, FALSE, failure) IN
       /\ cas' = r.cas
       /\ casTrash' = r.trash
       /\ needFsck' = (needFsck \/ r.needFsck)
       /\ last' = [Command("gc") EXCEPT !.err = r.err, !.failure = failure,
                                        !.exitCode = IF r.err THEN 1 ELSE 0]
  /\ UNCHANGED <<casStrays, nodes>>

\* gcRun.Run
Gc(failure) ==
  /\ FreshProcess
  /\ Fault(failure.kind # "none")
  /\ LET r == gcMain(cas, casTrash, nodes, needFsck, failure) IN
     \E q \in gcQuarantines(casStrays, needFsck, failure) :
       /\ cas' = r.cas
       /\ casTrash' = r.trash
       /\ casStrays' = q.strays
       /\ needFsck' = (r.needFsck \/ q.setFsck)
       /\ last' = [Command("gc") EXCEPT !.err = r.err, !.failure = failure,
                                        !.exitCode = IF r.err THEN 1 ELSE 0]
  /\ UNCHANGED nodes

\* An enumeration of the CAS that the interrupt cut short.
EnumCutShort == [kind |-> "interrupt", unread |-> {}]

\* gcRun.Run, the interrupt set before or while it enumerates.
GcInterrupted(seen, visited) ==
  /\ FreshProcess
  /\ seen # DOMAIN cas \/ visited # nodesEnumerate(nodes)
  /\ LET r == gcMainInterrupted(cas, casTrash, nodes, needFsck, seen, visited) IN
     \E q \in gcQuarantines(casStrays, needFsck, EnumCutShort) :
       /\ cas' = r.cas
       /\ casTrash' = r.trash
       /\ casStrays' = q.strays
       /\ needFsck' = (r.needFsck \/ q.setFsck)
       /\ last' = [Command("gc.interrupted") EXCEPT
                     !.err = r.err, !.exitCode = IF r.err THEN 1 ELSE 0]
  /\ UNCHANGED <<nodes, faults>>

\* fsckRun.Run
Fsck(failure) ==
  /\ FreshProcess
  /\ Fault(failure.kind # "none")
  /\ LET r == fsckMain(cas, casTrash, nodes, failure)
         q == casQuarantine(casStrays, needFsck, failure)
     IN
       /\ cas' = r.cas
       /\ casTrash' = r.trash
       /\ casStrays' = q.strays
       /\ nodes' = r.nodes
       /\ needFsck' = IF r.err THEN needFsck \/ r.needFsck \/ q.setFsck
                                ELSE r.needFsck
       /\ last' = [Command("fsck") EXCEPT !.err = r.err, !.failure = failure,
                                          !.casCorrupted = r.casCorrupted,
                                          !.nodesCorrupted = r.nodesCorrupted,
                                          !.exitCode = IF r.err THEN 1 ELSE 0]

\* restoreRun.Run with -out an empty directory
Restore(p) ==
  /\ FreshProcess
  /\ LET r == restoreMain(cas, nodes, p) IN
       /\ needFsck' = (needFsck \/ r.setFsck)
       /\ last' = [Command("restore") EXCEPT !.err = r.err, !.arg = p,
                     !.out = r.out, !.count = r.count,
                     !.exitCode = IF r.err THEN 1 ELSE 0]
  /\ UNCHANGED <<cas, casTrash, casStrays, nodes, faults>>

\* restoreRun.Run with -out a directory that holds existing; firstErr is the
\* leaf whose error main returns.
RestoreOnto(p, existing) ==
  /\ FreshProcess
  /\ LET r == restoreMain(cas, nodes, p)
         t == restoreEntryOnto(cas[nodesLoad(nodes, p).entry].tree, cas, existing)
     IN IF r.setFsck \/ nodesLoad(nodes, p).kind # "node"
        THEN /\ needFsck' = (needFsck \/ r.setFsck)
             /\ last' = [Command("restoreOnto") EXCEPT
                           !.err = TRUE, !.arg = p, !.existing = existing,
                           !.out = existing, !.exitCode = 1]
        ELSE /\ needFsck' = needFsck
             /\ \E first \in IF t.failed = {} THEN {<<>>} ELSE t.firsts :
                  last' = [Command("restoreOnto") EXCEPT
                             !.err = (t.failed # {}), !.arg = p,
                             !.existing = existing, !.out = t.out,
                             !.count = t.count, !.failed = t.failed,
                             !.firstErr = first,
                             !.exitCode = IF t.failed # {} THEN 1 ELSE 0]
  /\ UNCHANGED <<cas, casTrash, casStrays, nodes, faults>>

\* NodesTable.Remove(name)
NodesRemove(p) ==
  /\ FreshProcess
  /\ LET r == nodesRemove(nodes, p) IN
       /\ nodes' = r.nodes
       /\ last' = [Command("nodes.Remove") EXCEPT !.err = r.err, !.arg = p]
  /\ UNCHANGED <<cas, casTrash, casStrays, needFsck, faults>>

\* CasTable.Remove(hash)
CasRemove(h) ==
  /\ FreshProcess
  /\ LET r == casRemove(cas, casTrash, h) IN
       /\ cas' = r.cas
       /\ casTrash' = r.trash
       /\ last' = [Command("cas.Remove") EXCEPT !.err = r.err, !.sha1 = h]
  /\ UNCHANGED <<casStrays, nodes, needFsck, faults>>

\* CasTable.Open(hash)
CasOpen(h) ==
  /\ FreshProcess
  /\ LET r == casOpen(cas, h) IN
       last' = [Command("cas.Open") EXCEPT !.err = r.err, !.sha1 = h,
                                           !.data = r.data]
  /\ UNCHANGED <<cas, casTrash, casStrays, nodes, needFsck, faults>>

\* AddBytes(cas, data)
CasAddBytes(data) ==
  /\ FreshProcess
  /\ \E o \in AddBytes(cas, data) :
       /\ Fault(AddEntryFailed(o, o.hash))
       /\ cas' = o.cas
       /\ last' = [Command("AddBytes") EXCEPT !.err = (o.err # "nil"),
                                              !.res = o.err,
                                              !.sha1 = o.hash, !.data = data]
  /\ UNCHANGED <<casTrash, casStrays, nodes, needFsck>>

\* CasTable.AddEntry(source, hash)
CasAddEntry(source, h) ==
  /\ FreshProcess
  /\ \E o \in casAddEntry(cas, source, h) :
       /\ Fault(AddEntryFailed(o, h))
       /\ cas' = o.cas
       /\ last' = [Command("cas.AddEntry") EXCEPT !.err = (o.err # "nil"),
                                                  !.res = o.err,
                                                  !.sha1 = h, !.data = source]
  /\ UNCHANGED <<casTrash, casStrays, nodes, needFsck>>

\* NodesTable.AddEntry(&Node{Entry: entrySha1}, label)
NodesAddEntry(entrySha1, label) ==
  /\ FreshProcess
  /\ \E o \in nodesAddEntry(nodes, entrySha1, label, now) :
       /\ Fault(o.err)
       /\ nodes' = o.nodes
       /\ last' = [Command("nodes.AddEntry") EXCEPT !.err = o.err,
                                                    !.sha1 = entrySha1,
                                                    !.arg = o.name]
  /\ UNCHANGED <<cas, casTrash, casStrays, needFsck>>

(***************************************************************************)
(* nodesTable.AddEntry, one iteration of its for loop at a time.           *)
(***************************************************************************)
AddEntryFrame ==
  UNCHANGED <<interrupted, stats, inputs, enum, items_to_scan, hash,
              items_hashed, arch, entry, coord, done, cache, cas, casTrash,
              casStrays, needFsck, now>>

\* suffix++ on the int suffix, its width cut down to SuffixBits bits.
NextSuffix(suffix) == (suffix + 1) % (2 ^ SuffixBits)

\* AddEntry(node, name) is called: json.Marshal, time.Now, MkdirAll of the
\* month directory, suffix := 0.
AddEntryCall(entrySha1, label, refused) ==
  /\ AtPrompt
  /\ addEntry.pc # "try"
  /\ runs < MaxRuns
  /\ runs' = runs + 1
  /\ addEntry' = [pc |-> "try", suffix |-> 0, name |-> label,
                  entry |-> entrySha1, t |-> now, refused |-> refused]
  /\ last' = [Command("nodes.AddEntry") EXCEPT !.sha1 = entrySha1]
  /\ AddEntryFrame
  /\ UNCHANGED <<nodes, faults>>

\* os.OpenFile(nodePath, O_WRONLY|O_EXCL|O_CREATE) returns an error, the
\* name being taken or the create refused: suffix++ and the loop goes on.
AddEntryRetry ==
  /\ addEntry.pc = "try"
  /\ \/ addEntry.refused
     \/ MonthPath(0, addEntry.t, addEntry.name, addEntry.suffix) \in DOMAIN nodes
  /\ addEntry' = [addEntry EXCEPT !.suffix = NextSuffix(@)]
  /\ AddEntryFrame
  /\ UNCHANGED <<nodes, runs, faults, last>>

\* os.OpenFile fails once on a free name for another reason.
AddEntryCreateFails ==
  /\ addEntry.pc = "try"
  /\ ~addEntry.refused
  /\ MonthPath(0, addEntry.t, addEntry.name, addEntry.suffix) \notin DOMAIN nodes
  /\ Fault(TRUE)
  /\ addEntry' = [addEntry EXCEPT !.suffix = NextSuffix(@)]
  /\ AddEntryFrame
  /\ UNCHANGED <<nodes, runs, last>>

\* os.OpenFile creates the node file: the write, the tag, the return.
AddEntryCreated ==
  /\ addEntry.pc = "try"
  /\ ~addEntry.refused
  /\ MonthPath(0, addEntry.t, addEntry.name, addEntry.suffix) \notin DOMAIN nodes
  /\ \E o \in nodesWriteAt(nodes, addEntry.entry, addEntry.name, addEntry.t,
                           addEntry.suffix) :
       /\ Fault(o.err)
       /\ nodes' = o.nodes
       /\ last' = [last EXCEPT !.err = o.err, !.arg = o.name]
  /\ addEntry' = [addEntry EXCEPT !.pc = "returned"]
  /\ AddEntryFrame
  /\ UNCHANGED runs

\* CasTable.SetFsckBit()
CasSetFsckBit ==
  /\ FreshProcess
  /\ needFsck' = TRUE
  /\ last' = Command("cas.SetFsckBit")
  /\ UNCHANGED <<cas, casTrash, casStrays, nodes, faults>>

\* A file or a directory that is no object turns up in the cas directory
\* (the store is a plain directory tree).
CasInject(name) ==
  /\ FreshProcess
  /\ name \notin casStrays.dir
  /\ casStrays' = [casStrays EXCEPT !.dir = @ \cup {name}]
  /\ last' = Command("inject")
  /\ UNCHANGED <<cas, casTrash, needFsck, nodes, faults>>

\* CasTable.Enumerate(), the channel read until it is closed.
CasEnumerate(failure) ==
  /\ FreshProcess
  /\ Fault(failure.kind # "none")
  /\ LET listed == casEnumerate(cas, failure)
         q == casQuarantine(casStrays, needFsck, failure)
     IN
       /\ casStrays' = q.strays
       /\ needFsck' = (needFsck \/ listed.setFsck \/ q.setFsck)
       /\ last' = [Command("cas.Enumerate") EXCEPT
                     !.failure = failure, !.err = listed.error,
                     !.yielded = casYield(cas, casTrash, failure)]
  /\ UNCHANGED <<cas, casTrash, nodes>>

\* time.Now(): a second goes by between two calls.
Tick ==
  /\ AtPrompt
  /\ now < MaxTime
  /\ now' = now + 1
  /\ UNCHANGED <<interrupted, stats, inputs, enum, items_to_scan, hash,
                 items_hashed, arch, entry, coord, done, cache, addEntry, runs,
                 faults, last>>
  /\ UNCHANGED storeVars

\* What AddBytes is called with, besides the manifests of the archiver.
BytesUniverse == {RawData(<<3>>)}

\* The steps of an archive run that do not involve the interrupt.
PipelineStep ==
  \/ EnumNext \/ EnumWalkItem \/ EnumWalkError \/ EnumWalkClosed
  \/ EnumSend \/ EnumExit
  \/ HashItem \/ HashClosed \/ HashSend \/ HashExit
  \/ ArchItem \/ ArchClosed \/ ArchExit
  \/ CoordLog \/ CoordEntryClosed \/ CoordEntry \/ CoordDone \/ CoordReturn

\* The interrupt, and the select branches that watch it.
InterruptStep ==
  \/ Interrupt
  \/ EnumInterrupted \/ HashInterrupted \/ ArchInterrupted \/ CoordInterrupted

\* The lines a list file may hold.
InputLists == SeqsUpTo(RootUniverse, MaxInputs)

(***************************************************************************)
(* SpecArchive: one archive run in every interleaving, interrupt included, *)
(* then a restore of what it wrote.                                        *)
(***************************************************************************)
NextArchive ==
  \/ \E lines \in InputLists, cacheLoaded \in BOOLEAN :
       runs = 0 /\ ArchiveStart(lines, cacheLoaded)
  \/ runs = 0 /\ ArchiveFailsEarly
  \/ PipelineStep
  \/ InterruptStep
  \/ \E p \in DOMAIN nodes : Restore(p)
  \/ \E p \in DOMAIN nodes, existing \in ExistingOuts : RestoreOnto(p, existing)

SpecArchive == Init /\ [][NextArchive]_vars

(***************************************************************************)
(* SpecArchiveFair: one archive run that is never interrupted.  The Go     *)
(* scheduler runs every goroutine that can take a step: weak fairness on   *)
(* the steps of each of the three stages and of main.                      *)
(***************************************************************************)
EnumStep ==
  \/ EnumNext \/ EnumWalkItem \/ EnumWalkError \/ EnumWalkClosed
  \/ EnumSend \/ EnumExit

HashStep == HashItem \/ HashClosed \/ HashSend \/ HashExit

ArchStep == ArchItem \/ ArchClosed \/ ArchExit

CoordStep == CoordLog \/ CoordEntryClosed \/ CoordEntry \/ CoordDone \/ CoordReturn

NextArchiveFair ==
  \/ \E lines \in InputLists, cacheLoaded \in BOOLEAN :
       runs = 0 /\ ArchiveStart(lines, cacheLoaded)
  \/ runs = 0 /\ ArchiveFailsEarly
  \/ EnumStep
  \/ HashStep
  \/ ArchStep
  \/ CoordStep

SpecArchiveFair ==
  /\ Init
  /\ [][NextArchiveFair]_vars
  /\ WF_vars(EnumStep)
  /\ WF_vars(HashStep)
  /\ WF_vars(ArchStep)
  /\ WF_vars(CoordStep)

(***************************************************************************)
(* Spec: any sequence of commands and library calls on one store.  The     *)
(* archive runs are not interrupted here.                                  *)
(***************************************************************************)
\* The list files of the store-level runs.
StoreLists == {<<>>, <<<<"c">>>>}

Next ==
  \/ \E lines \in StoreLists, cacheLoaded \in BOOLEAN :
       ArchiveStart(lines, cacheLoaded)
  \/ ArchiveFailsEarly
  \/ PipelineStep
  \/ \E failure \in CasEnumFailures(cas) : Gc(failure)
  \/ \E failure \in CasEnumFailures(cas) : Fsck(failure)
  \/ \E p \in DOMAIN nodes : Restore(p)
  \/ \E p \in DOMAIN nodes : NodesRemove(p)
  \/ \E h \in DOMAIN cas : CasRemove(h)
  \/ \E data \in BytesUniverse : CasAddBytes(data)

Spec == Init /\ [][Next]_vars

(***************************************************************************)
(* SpecTables: any sequence of calls on the two tables (CasTable and       *)
(* NodesTable) and of fsck runs, the clock advancing in between.           *)
(***************************************************************************)
\* The bytes handed to the CasTable.
TableBytes == BytesUniverse \cup {RawData(<<4>>)}

\* The names AddEntry is called with: the hashes of the bytes, and a name
\* that is no hash.
TableHashes == {Sha1Bytes(b) : b \in TableBytes} \cup {EmptySha1}

\* The Entry field of the nodes added: a hash, and a string that is none.
NodeEntries == {Sha1Bytes(RawData(<<3>>)), EmptySha1}

\* The labels the nodes are added with.
Labels == {"l", "k"}

NextTables ==
  \/ \E source \in TableBytes, h \in TableHashes : CasAddEntry(source, h)
  \/ \E data \in TableBytes : CasAddBytes(data)
  \/ \E h \in DOMAIN cas : CasRemove(h)
  \/ \E e \in NodeEntries, label \in Labels : NodesAddEntry(e, label)
  \/ \E p \in DOMAIN nodes : NodesRemove(p)
  \/ Tick
  \/ \E failure \in CasEnumFailures(cas) : Fsck(failure)

SpecTables == Init /\ [][NextTables]_vars

(***************************************************************************)
(* SpecCas: calls on the CasTable of a store whose cas directory may hold  *)
(* misnamed files, and fsck runs on it, the reads of fsck failing or not.  *)
(***************************************************************************)
NextCas ==
  \/ \E source \in TableBytes, h \in TableHashes : CasAddEntry(source, h)
  \/ \E h \in TableHashes : CasRemove(h)
  \/ \E h \in TableHashes : CasOpen(h)
  \/ CasSetFsckBit
  \/ \E name \in StrayNames : CasInject(name)
  \/ \E failure \in CasEnumFailures(cas) : CasEnumerate(failure)
  \/ \E e \in NodeEntries : NodesAddEntry(e, "l")
  \/ \E failure \in FsckFailures(cas) : Fsck(failure)

SpecCas == Init /\ [][NextCas]_vars

(***************************************************************************)
(* SpecGc: archive runs, and gc runs that the interrupt reaches while they *)
(* enumerate the CAS or the nodes.                                         *)
(***************************************************************************)
NextGc ==
  \/ \E lines \in StoreLists, cacheLoaded \in BOOLEAN :
       ArchiveStart(lines, cacheLoaded)
  \/ PipelineStep
  \/ \E seen \in SUBSET DOMAIN cas, visited \in SUBSET nodesEnumerate(nodes) :
       GcInterrupted(seen, visited)

SpecGc == Init /\ [][NextGc]_vars

(***************************************************************************)
(* SpecAddEntry: calls of NodesTable.AddEntry on the local table, the for  *)
(* loop of each taken one iteration at a time.  The loop runs in the       *)
(* caller's goroutine, which is scheduled as long as it is not blocked:    *)
(* weak fairness on its iterations.                                        *)
(***************************************************************************)
NextAddEntry ==
  \/ \E e \in NodeEntries, label \in Labels, refused \in BOOLEAN :
       AddEntryCall(e, label, refused)
  \/ AddEntryRetry
  \/ AddEntryCreateFails
  \/ AddEntryCreated
  \/ Tick

SpecAddEntry ==
  /\ Init
  /\ [][NextAddEntry]_vars
  /\ WF_vars(AddEntryRetry)
  /\ WF_vars(AddEntryCreated)

(***************************************************************************)
(* SpecRuns: archive runs of one list file, one after the other, starting  *)
(* with a cache an earlier run on another store has saved, possibly when   *)
(* the file c/x had another size, modification time or content.            *)
(***************************************************************************)
\* The records the saved cache may hold for c/x, which has now size 1 and
\* mtime 1: the one of the file as it is, and the ones of older versions.
StaleRecords ==
  {[Sha1 |-> Sha1Bytes(RawData(<<1>>)), Size |-> 1, Timestamp |-> 1],
   [Sha1 |-> Sha1Bytes(RawData(<<9>>)), Size |-> 1, Timestamp |-> 1],
   [Sha1 |-> Sha1Bytes(RawData(<<9>>)), Size |-> 1, Timestamp |-> 0],
   [Sha1 |-> Sha1Bytes(RawData(<<9, 9>>)), Size |-> 2, Timestamp |-> 1],
   [Sha1 |-> Sha1Bytes(RawData(<<9, 9>>)), Size |-> 2, Timestamp |-> 0]}

\* The caches on disk when the first run starts.
SavedCaches ==
  {EmptyCache} \cup
  {[FindInCache(EmptyCache, <<"c", "x">>) EXCEPT ![<<"c", "x">>] = rec] :
     rec \in StaleRecords}

InitRuns ==
  /\ interrupted = FALSE
  /\ stats = ZeroStats
  /\ inputs = <<>>
  /\ enum = IdleEnum
  /\ items_to_scan = EmptyChan
  /\ hash = IdleHash
  /\ items_hashed = EmptyChan
  /\ arch = IdleArch
  /\ entry = [closed |-> FALSE]
  /\ coord = IdleCoord
  /\ done = 0
  /\ cache \in SavedCaches
  /\ cas = <<>>
  /\ casTrash = <<>>
  /\ casStrays = NoStrays
  /\ needFsck = FALSE
  /\ nodes = EmptyDir
  /\ now = 0
  /\ addEntry = IdleAddEntry
  /\ runs = 0
  /\ faults = 0
  /\ last = NoCommand

NextRuns ==
  \/ \E lines \in InputLists, cacheLoaded \in BOOLEAN :
       /\ runs > 0 => Append(lines, ToArchive) = inputs
       /\ ArchiveStart(lines, cacheLoaded)
  \/ PipelineStep

SpecRuns == InitRuns /\ [][NextRuns]_vars

(***************************************************************************)
(* Vocabulary of the properties.                                           *)
(***************************************************************************)
\* The nodes of the table n: the files outside trash/ that open and decode.
NodesOf(n) == {p \in DOMAIN n : p.depth = 0 /\ nodesLoad(n, p).kind = "node"}

\* The non-empty sha1 of the leaves of an Entry tree.
LeafSha1s(tree) == {tree[q].sha1 : q \in {r \in DOMAIN tree : tree[r].sha1 # EmptySha1}}

\* The hashes the node file d refers to in the CAS c: its Entry hash and,
\* when that Entry loads, the sha1 of its leaves.
UsedBy(c, d) ==
  {d.entry} \cup (IF LoadsAsEntry(c, d.entry) THEN LeafSha1s(c[d.entry].tree) ELSE {})

\* The hashes some node of the table n refers to.
Referenced(c, n) == UNION {UsedBy(c, nodesLoad(n, p)) : p \in NodesOf(n)}

\* gc has just completed without error.
GcCompleted == last.cmd = "gc" /\ ~last.err

\* C1: whenever gc completes without error, every hash that was in the CAS
\* when gc started and is referenced by some node (as its Entry hash or as a
\* non-empty sha1 of that Entry's tree) is still in the CAS with its bytes,
\* and has not been moved to the trash.
C1_GcKeepsReachable ==
  GcCompleted =>
    \A h \in Referenced(last.casBefore, last.nodesBefore) \cap DOMAIN last.casBefore :
      /\ h \in DOMAIN cas
      /\ cas[h] = last.casBefore[h]
      /\ h \in DOMAIN casTrash =>
           h \in DOMAIN last.trashBefore /\ casTrash[h] = last.trashBefore[h]

\* A gc completed, swept an object, and kept the Entry and a leaf of a node.
C1_Witness ==
  /\ GcCompleted
  /\ DOMAIN cas # DOMAIN last.casBefore
  /\ \E p \in NodesOf(last.nodesBefore) :
       LET d == nodesLoad(last.nodesBefore, p) IN
         /\ LoadsAsEntry(last.casBefore, d.entry)
         /\ LeafSha1s(last.casBefore[d.entry].tree) \cap DOMAIN last.casBefore # {}

\* The month files of the table n under depth trash/ segments that decode.
MonthNodes(n, depth) ==
  {p \in DOMAIN n : p.dir = "month" /\ p.depth = depth /\ n[p].kind = "node"}

\* gc has just completed on a table that held two nodes, one of which was
\* removed through NodesTable.Remove: kept is the remaining node, gone the
\* removed one, where Remove left it.
TwoNodesOneRemoved(kept, gone) ==
  /\ GcCompleted
  /\ MonthNodes(last.nodesBefore, 0) = {kept}
  /\ MonthNodes(last.nodesBefore, 1) = {gone}
  /\ LoadsAsEntry(last.casBefore, last.nodesBefore[kept].entry)
  /\ gone.sfx # kept.sfx

C3_AddEntryOnlyWhenClean ==
  [][(last'.added /\ ~last.added) =>
       /\ arch.pc = "emit"
       /\ validPath(arch.entrySha1)
       /\ stats.errors = 0
       /\ stats.interrupted = 0]_vars

\* C4: for every node N of the nodes table, the object named N.Entry is in
\* the CAS and decodes as an Entry, and every non-empty leaf sha1 of that
\* Entry names an object that is in the CAS.
C4_NodesResolve ==
  \A p \in NodesOf(nodes) :
    /\ LoadsAsEntry(cas, nodesLoad(nodes, p).entry)
    /\ LeafSha1s(cas[nodesLoad(nodes, p).entry].tree) \subseteq DOMAIN cas

\* The archive command has ended.
ArchiveEnded == last.cmd = "archive" /\ coord.pc = "returned"

\* C5: the archive command ends with a non-zero exit code whenever the run
\* was interrupted or the errors counter is greater than 0 at the end.
C5_ExitCodeReportsFailure ==
  (ArchiveEnded /\ (interrupted \/ stats.errors > 0)) => last.exitCode # 0

\* C6: AddEntry(source, h) is all-or-nothing: after AddBytes(data) on a
\* store where the hash of data is absent, the object is either present
\* with all the bytes of data, or not present at all.
C6_AddEntryAllOrNothing ==
  (last.cmd = "AddBytes" /\ last.sha1 \notin DOMAIN last.casBefore) =>
    (last.sha1 \in DOMAIN cas => cas[last.sha1] = last.data)

\* C7: once the interrupt is raised during an archive run, the run never
\* comes to a stop with a stage blocked on a send or the coordinator
\* waiting: as long as the command has not returned, some process can move.
C7_InterruptedRunNeverBlocks ==
  (interrupted /\ last.cmd = "archive" /\ coord.pc # "returned") =>
    ENABLED (PipelineStep \/ InterruptStep)

\* C8: every object of the CAS has a name equal to the SHA-1 of its bytes.
C8_NamesAreHashes == \A h \in DOMAIN cas : Sha1Bytes(cas[h]) = h

\* C9: once set, the fsck flag becomes clear only at the end of an fsck run
\* that returned no error and whose enumeration reported no error.
C9_FlagClearedByFullFsck ==
  [][(needFsck /\ ~needFsck') =>
       /\ last'.cmd = "fsck"
       /\ ~last'.err
       /\ last'.failure.kind = "none"]_vars

\* The (relative path, bytes) pairs of the input set of a run: a file of an
\* input directory by its path under the directory, an input file by its
\* base name.
InputPairs(ins) ==
  UNION {IF IsDir(ins[i])
         THEN {<<RelPathInDir(ins[i], f), FileSystem[f].data>> : f \in FilesUnder(ins[i])}
         ELSE IF IsFile(ins[i])
         THEN {<<PathBase(ins[i]), FileSystem[ins[i]].data>>}
         ELSE {} : i \in 1..Len(ins)}

\* The (relative path, bytes) pairs of a restored tree.
TreePairs(out) == {<<q, out[q]>> : q \in DOMAIN out}

\* C10: archiving an input set in one run, without error or interrupt, and
\* restoring the resulting node into an empty directory produces a tree
\* whose (relative path, bytes) pairs are those of the input set.
C10_RestoreGivesInputs ==
  [][(/\ ArchiveEnded /\ last.added /\ ~interrupted /\ stats.errors = 0
      /\ last'.cmd = "restore"
      /\ last'.arg.dir = "month"
      /\ nodesLoad(nodes, last'.arg).entry = last.sha1)
     => TreePairs(last'.out) = InputPairs(inputs)]_vars

\* The node at q of an Entry tree has children (a non-empty Files map).
HasFiles(tree, q) == \E r \in DOMAIN tree : r # q /\ IsPrefix(q, r)

\* A call on the CasTable has just returned.
CasCalled(cmd) == last.cmd = cmd

\* C12: when AddEntry(r, h) returns without error on a CAS that did not hold
\* h, Open(h) succeeds and yields exactly the bytes of r, and Enumerate yields
\* h.
C12_AddEntryThenOpen ==
  (CasCalled("cas.AddEntry") /\ last.res = "nil"
     /\ last.sha1 \notin DOMAIN last.casBefore) =>
    /\ ~casOpen(cas, last.sha1).err
    /\ casOpen(cas, last.sha1).data = last.data
    /\ last.sha1 \in casEnumerate(cas, NoEnumFailure).items

\* AddEntry stored bytes under a name that is not their hash, and returned
\* without error.
C12_Witness ==
  /\ CasCalled("cas.AddEntry")
  /\ last.res = "nil"
  /\ last.sha1 \notin DOMAIN last.casBefore
  /\ last.sha1 # Sha1Bytes(last.data)
  /\ last.casBefore # <<>>

\* C13: AddBytes(b) called again after a first success returns the same hash
\* with an "already exists" result, and leaves the bytes of the stored
\* objects and the hashes Enumerate yields unchanged.
C13_AddBytesIdempotent ==
  [][(/\ CasCalled("AddBytes") /\ last.res = "nil"
      /\ runs' = runs + 1
      /\ last'.cmd = "AddBytes" /\ last'.data = last.data)
     => /\ last'.res = "exist"
        /\ last'.sha1 = last.sha1
        /\ cas' = cas
        /\ casEnumerate(cas', NoEnumFailure).items
             = casEnumerate(cas, NoEnumFailure).items]_vars

\* AddBytes was called on a store that held the object with all its bytes.
C13_Witness ==
  /\ CasCalled("AddBytes")
  /\ last.res = "exist"
  /\ ~casOpen(last.casBefore, last.sha1).err
  /\ casOpen(last.casBefore, last.sha1).data = last.data
  /\ cas = last.casBefore

\* The files of the input set of a run with their relative paths.
RunFiles(ins) ==
  UNION {IF IsDir(ins[i])
         THEN {[full |-> f, rel |-> RelPathInDir(ins[i], f)] : f \in FilesUnder(ins[i])}
         ELSE IF IsFile(ins[i])
         THEN {[full |-> ins[i], rel |-> PathBase(ins[i])]}
         ELSE {} : i \in 1..Len(ins)}

\* No input is listed twice, and no two files of the input set have the
\* same relative path or a relative path under the other's.
DistinctRelPaths(ins) ==
  /\ \A i, j \in 1..Len(ins) : ins[i] = ins[j] => i = j
  /\ \A x, y \in RunFiles(ins) : IsPrefix(x.rel, y.rel) => x = y

\* The hasher received f and failed to read it: its cache record is still
\* the empty one, and does not match the file.
HashFailed(f) ==
  /\ f \in DOMAIN cache
  /\ cache[f] = EmptyEntryCache
  /\ updateFile(cache[f], InputItem(f, f)) # {[wasHashed |-> FALSE, err |-> FALSE, rec |-> cache[f]]}

\* The first archive run of a store has ended, without interrupt, with the
\* Entry it emitted stored, on inputs with distinct relative paths.
FirstRunEnded ==
  /\ ArchiveEnded /\ ~interrupted /\ runs = 1
  /\ last.added /\ LoadsAsEntry(cas, last.sha1)
  /\ DistinctRelPaths(inputs)

\* The hasher takes an item from the enumerator's queue in this step.
HashReceives ==
  /\ hash.pc = "select"
  /\ Len(items_to_scan'.buf) < Len(items_to_scan.buf)

\* C14: a file the hasher cannot open or read does not abort the run.  The
\* step that fails adds exactly one to the errors counter, forwards nothing
\* and leaves the hasher in its loop; a step that succeeds adds no error.  At
\* the end of the run every file the hasher received has a leaf in the final
\* Entry with its hash and size, unless the hasher failed on it, and then it
\* is absent from the Entry; the files that did not fail are all counted as
\* hashed or not hashed.
C14_HashErrorsSkipOneItem ==
  /\ [](FirstRunEnded =>
         LET tree == cas[last.sha1].tree
             received == {x \in RunFiles(inputs) : x.full \in DOMAIN cache}
             failed == {x \in received : HashFailed(x.full)}
         IN /\ \A x \in failed : x.rel \notin DOMAIN tree
            /\ \A x \in received \ failed :
                 /\ x.rel \in DOMAIN tree
                 /\ tree[x.rel].sha1 = cache[x.full].Sha1
                 /\ tree[x.rel].size = Len(FileSystem[x.full].data)
            /\ stats.nbHashed + stats.nbNotHashed = Cardinality(received \ failed)
            /\ stats.errors >= Cardinality(failed))
  /\ [][HashReceives =>
          IF hash'.pc = "log"
          THEN /\ stats'.errors = stats.errors + 1
               /\ hash'.cont = "select"
               /\ items_hashed' = items_hashed
          ELSE stats'.errors = stats.errors]_vars

\* A run ended in which the hasher failed on one file and another file got
\* its leaf in the Entry.
C14_Witness ==
  /\ FirstRunEnded
  /\ \E x, y \in RunFiles(inputs) :
       /\ HashFailed(x.full)
       /\ y.full \in DOMAIN cache /\ ~HashFailed(y.full)
       /\ y.rel \in DOMAIN cas[last.sha1].tree
       /\ x.rel \notin DOMAIN cas[last.sha1].tree

\* The cache record the hasher finds for the file f.
CacheRecord(f) == FindInCache(cache, f)[f]

\* C15: the hasher reuses the cached sha1 without reading the file, and
\* counts the item as not hashed, when the size and the mtime of the cache
\* record both equal those of the file; in every other case, unless the read
\* fails, it hashes the file, overwrites the sha1, size and mtime of the
\* record, and counts the item as hashed.
C15_CacheHitIffSizeAndMtime ==
  [][HashReceives =>
       LET item == Head(items_to_scan.buf)
           rec == CacheRecord(item.fullPath)
       IN IF rec.Size = item.size /\ rec.Timestamp = item.mtime
          THEN /\ hash'.pc = "send"
               /\ hash'.item.sha1 = rec.Sha1
               /\ cache'[item.fullPath] = rec
               /\ faults' = faults
               /\ stats'.nbNotHashed = stats.nbNotHashed + 1
               /\ stats'.nbHashed = stats.nbHashed
          ELSE hash'.pc = "send" =>
               /\ hash'.item.sha1 = sha1FilePath(item.fullPath)
               /\ cache'[item.fullPath] =
                    [Sha1 |-> sha1FilePath(item.fullPath), Size |-> item.size,
                     Timestamp |-> item.mtime]
               /\ stats'.nbHashed = stats.nbHashed + 1
               /\ stats'.nbNotHashed = stats.nbNotHashed]_vars

\* The hasher has just reused the sha1 of a record of the right size and
\* mtime, which is not the hash of the file as it is: it did not read it.
C15_Witness ==
  /\ hash.pc = "send"
  /\ hash.item.sha1 # EmptySha1
  /\ hash.item.sha1 = CacheRecord(hash.item.fullPath).Sha1
  /\ hash.item.sha1 # sha1FilePath(hash.item.fullPath)
  /\ stats.nbNotHashed >= 1

\* An archive run that follows another one on the same inputs has ended,
\* and no I/O has failed since the first run started.
SecondRunEnded == ArchiveEnded /\ runs >= 2 /\ faults = 0

\* The node files of the month directories of the table n.
MonthFiles(n) == {p \in DOMAIN n : p.dir = "month" /\ p.depth = 0}

\* C16: a second archive run on the same unchanged inputs, with the cache
\* the first run saved, adds no object to the CAS, adds exactly one node,
\* which points to the same Entry as the node of the first run, hashes no
\* file and counts every file found as not hashed.
C16_SecondRunAddsOneNode ==
  SecondRunEnded =>
    /\ cas = last.casBefore
    /\ \E p \in MonthFiles(nodes) \ MonthFiles(last.nodesBefore) :
         /\ MonthFiles(nodes) = MonthFiles(last.nodesBefore) \cup {p}
         /\ nodes[p].kind = "node"
         /\ \A q \in MonthFiles(last.nodesBefore) :
              nodes[q] = last.nodesBefore[q] /\ nodes[q].entry = nodes[p].entry
    /\ stats.nbHashed = 0
    /\ stats.nbNotHashed = stats.found

\* A second run ended on inputs that hold a directory with a file, after
\* a first run that wrote a node.
C16_Witness ==
  /\ SecondRunEnded
  /\ stats.found >= 2
  /\ MonthFiles(last.nodesBefore) # {}
  /\ DOMAIN last.casBefore # {}

\* NodesTable.AddEntry is called in this step, and no I/O fails in it.
NodesAddEntryStep ==
  /\ runs' = runs + 1
  /\ last'.cmd = "nodes.AddEntry"
  /\ faults' = faults

\* C17: NodesTable.AddEntry never overwrites a node.  A call in which no
\* I/O fails succeeds; the name it returns is not in the table before the
\* call, it is the base name of the second with the first suffix (none, then
\* (1), (2), ...) such that every smaller one is taken; the node file holds
\* the Entry given, and every node file that was in the table is unchanged.
C17_AddEntryNeverOverwrites ==
  [][NodesAddEntryStep =>
       LET name == last'.arg IN
         /\ ~last'.err
         /\ name \notin DOMAIN nodes
         /\ name = MonthPath(0, now, name.label, name.sfx)
         /\ \A k \in 0..(name.sfx - 1) :
              MonthPath(0, now, name.label, k) \in DOMAIN nodes
         /\ name \in DOMAIN nodes' /\ nodes'[name] = NodeFile(last'.sha1)
         /\ \A q \in MonthFiles(nodes) :
              q \in DOMAIN nodes' /\ nodes'[q] = nodes[q]]_vars

\* The third node of one label within one second has been added: its name
\* carries the suffix (2), and the two earlier nodes are there.
C17_Witness ==
  /\ last.cmd = "nodes.AddEntry"
  /\ ~last.err
  /\ faults = last.faultsBefore
  /\ last.arg.sfx = 2
  /\ \A k \in 0..2 : MonthPath(0, now, last.arg.label, k) \in DOMAIN nodes

\* C18: after a successful AddEntry(node, label) the tag of the label
\* resolves to the content of the node the call created, and the tag of
\* every other label resolves to what it did before.
C18_TagIsLatestNode ==
  [][(runs' = runs + 1 /\ last'.cmd = "nodes.AddEntry" /\ ~last'.err) =>
       /\ TagPath(0, last'.arg.label) \in DOMAIN nodes'
       /\ nodesLoad(nodes', TagPath(0, last'.arg.label)) = NodeFile(last'.sha1)
       /\ nodesLoad(nodes', TagPath(0, last'.arg.label)) = nodes'[last'.arg]
       /\ \A other \in Labels \ {last'.arg.label} :
            nodesLoad(nodes', TagPath(0, other)) = nodesLoad(nodes, TagPath(0, other))]_vars

\* A second node has been added for a label: the tag, a symlink, has been
\* replaced and leads to the second node, whose Entry is not the first's.
C18_Witness ==
  /\ last.cmd = "nodes.AddEntry"
  /\ ~last.err
  /\ last.arg.sfx = 1
  /\ TagPath(0, last.arg.label) \in DOMAIN last.nodesBefore
  /\ nodes[TagPath(0, last.arg.label)].kind = "link"
  /\ nodes[MonthPath(0, now, last.arg.label, 0)] # nodes[last.arg]

\* An fsck run has ended in which no listing of the CAS failed.
FsckEnded == last.cmd = "fsck" /\ last.failure.kind = "none"

\* The objects of the CAS c whose bytes do not hash to their name.
Corrupted(c) == {h \in DOMAIN c : Sha1Bytes(c[h]) # h}

\* The CAS and its trash are what the CAS pass of fsck makes of them: the
\* corrupted objects are in the trash with their bytes, everything else is
\* as it was.
OnlyCorruptedTrashed ==
  LET bad == Corrupted(last.casBefore) IN
    /\ DOMAIN cas = DOMAIN last.casBefore \ bad
    /\ \A h \in DOMAIN cas : cas[h] = last.casBefore[h]
    /\ DOMAIN casTrash = DOMAIN last.trashBefore \cup bad
    /\ \A h \in bad : casTrash[h] = last.casBefore[h]
    /\ \A h \in DOMAIN last.trashBefore \ bad : casTrash[h] = last.trashBefore[h]

\* The files Enumerate yields from the table n that fail the checks of the
\* fsck nodes pass: they do not open, do not decode as a Node, or hold an
\* Entry field that is no hash.
FailingNodes(n) ==
  {p \in nodesEnumerate(n) :
     \/ p \notin DOMAIN n
     \/ nodesLoad(n, p).kind # "node"
     \/ ~validPath(nodesLoad(n, p).entry)}

\* C19: when exactly k objects of the CAS hold bytes whose SHA-1 is not
\* their name and no node is corrupted, an fsck run returns no error, moves
\* exactly those k objects to the trash of the CAS, logs a corrupted count
\* of k for the CAS pass, leaves every other object and every node as they
\* were, and leaves the fsck flag clear.
C19_FsckQuarantinesCorrupted ==
  (FsckEnded /\ FailingNodes(last.nodesBefore) = {}) =>
    /\ ~last.err
    /\ last.casCorrupted = Cardinality(Corrupted(last.casBefore))
    /\ OnlyCorruptedTrashed
    /\ nodes = last.nodesBefore
    /\ ~needFsck

\* fsck ended on a store that held two corrupted objects and a node.
C19_Witness ==
  /\ FsckEnded
  /\ FailingNodes(last.nodesBefore) = {}
  /\ Cardinality(Corrupted(last.casBefore)) = 2
  /\ MonthFiles(last.nodesBefore) # {}

C11_EntryFileXorDirectory ==
  \A q \in DOMAIN arch.entryRoot :
    IF HasFiles(arch.entryRoot, q)
    THEN arch.entryRoot[q] = EmptyEntry
    ELSE arch.entryRoot[q].sha1 # EmptySha1

\* Every object is named by the SHA-1 of its bytes, and every node of the
\* table (the files of nodes/ outside its trash) decodes and carries a hash.
Uncorrupted(c, n) ==
  /\ Corrupted(c) = {}
  /\ \A p \in DOMAIN n : p.depth = 0 => ~fsckNodeCorrupted(n, p)

\* C21: a fsck run on an uncorrupted store, whatever the fsck flag was,
\* moves nothing to the trash of the CAS or of the nodes and leaves the flag
\* clear; the store it leaves is uncorrupted again, so that a second run
\* changes nothing either.
C21_FsckCleanStoreNoOp ==
  (FsckEnded /\ Uncorrupted(last.casBefore, last.nodesBefore)) =>
    /\ cas = last.casBefore
    /\ casTrash = last.trashBefore
    /\ casStrays = last.straysBefore
    /\ nodes = last.nodesBefore
    /\ ~needFsck

\* A fsck run that failed to open or to read an object of the CAS.
FsckReadFailed == last.cmd = "fsck" /\ last.failure.kind = "read"

\* C22: when opening or reading an enumerated object fails during the CAS
\* pass, fsck returns an error, leaves every node where it is (the nodes
\* pass is not run) and, the flag having been set, leaves it set.
C22_FsckStopsOnReadError ==
  FsckReadFailed =>
    /\ last.err
    /\ last.exitCode = 1
    /\ nodes = last.nodesBefore
    /\ last.nodesCorrupted = 0
    /\ last.flagBefore => needFsck

\* fsck failed on a read with the flag set and a node the nodes pass would
\* have removed.
C22_Witness ==
  /\ FsckReadFailed
  /\ last.flagBefore
  /\ FailingNodes(last.nodesBefore) # {}

\* gc went through the nodes of a table one of which does not open, does
\* not decode, or names an Entry that is not in the CAS or does not decode.
GcNodeUnloadable ==
  /\ last.cmd = "gc"
  /\ ~last.flagBefore
  /\ last.failure.kind = "none"
  /\ \E p \in nodesEnumerate(last.nodesBefore) :
       LET d == nodesLoad(last.nodesBefore, p) IN
         \/ d.kind # "node"
         \/ d.entry \notin DOMAIN last.casBefore
         \/ ~DecodesAsEntry(last.casBefore[d.entry])

\* C23: when gc cannot open or decode a node, or cannot load the Entry a
\* node names, it returns an error, the fsck flag is set when it returns and
\* no object of the CAS has been moved to the trash.
C23_GcLoadFailureSetsFlag ==
  GcNodeUnloadable =>
    /\ last.err
    /\ last.exitCode = 1
    /\ needFsck
    /\ cas = last.casBefore
    /\ casTrash = last.trashBefore

\* gc failed on a node while the CAS held an object no node refers to.
C23_Witness ==
  /\ GcNodeUnloadable
  /\ DOMAIN last.casBefore \ Referenced(last.casBefore, last.nodesBefore) # {}

\* gc went through the nodes of a table, the store not flagged and the CAS
\* enumerated without failure.
GcReadNodes ==
  last.cmd = "gc" /\ ~last.flagBefore /\ last.failure.kind = "none"

\* The hashes the enumerated nodes of n refer to that are not in the CAS c:
\* the Entry hashes, and the sha1 of the leaves of the Entries that load.
AbsentEntries(c, n) ==
  {nodesLoad(n, p).entry : p \in nodesEnumerate(n)} \ DOMAIN c

AbsentLeaves(c, n) ==
  UNION {tagRecurse(c[nodesLoad(n, p).entry].tree) :
           p \in {q \in nodesEnumerate(n) : LoadsAsEntry(c, nodesLoad(n, q).entry)}}
  \ DOMAIN c

\* Every enumerated node decodes, and every object one of them names as its
\* Entry decodes: the only defect is a hash that is not in the CAS.
OnlyAbsences(c, n) ==
  \A p \in nodesEnumerate(n) :
    /\ nodesLoad(n, p).kind = "node"
    /\ nodesLoad(n, p).entry \in DOMAIN c => DecodesAsEntry(c[nodesLoad(n, p).entry])

\* C24 as stated: gc does not fail because a hash the nodes refer to is not
\* in the CAS, be it the Entry hash of a node or the sha1 of a leaf.
C24_GcToleratesAbsentHashes ==
  (GcReadNodes /\ OnlyAbsences(last.casBefore, last.nodesBefore)) => ~last.err

\* C24 amended: gc does not fail because the sha1 of a leaf of a loaded
\* Entry is not in the CAS; it completes without error, leaves the flag
\* clear and sweeps nothing for that hash.
C24_GcToleratesAbsentLeaves ==
  (/\ GcReadNodes
   /\ OnlyAbsences(last.casBefore, last.nodesBefore)
   /\ AbsentEntries(last.casBefore, last.nodesBefore) = {}) =>
    /\ ~last.err
    /\ ~needFsck
    /\ \A h \in AbsentLeaves(last.casBefore, last.nodesBefore) :
         /\ h \notin DOMAIN cas
         /\ h \in DOMAIN casTrash =>
              h \in DOMAIN last.trashBefore /\ casTrash[h] = last.trashBefore[h]

\* gc completed on a table one node of which names a leaf that is not in
\* the CAS.
C24_Witness ==
  /\ GcReadNodes
  /\ OnlyAbsences(last.casBefore, last.nodesBefore)
  /\ AbsentEntries(last.casBefore, last.nodesBefore) = {}
  /\ AbsentLeaves(last.casBefore, last.nodesBefore) # {}

\* C25: after gc completes without error, every hash still in the CAS is
\* the Entry hash of some node of the table or a non-empty sha1 of the Entry
\* tree of some node, and every other object that was in the CAS when gc
\* started is in the trash of the CAS.
C25_GcLeavesOnlyReachable ==
  GcCompleted =>
    LET used == Referenced(last.casBefore, last.nodesBefore) IN
      /\ DOMAIN cas \subseteq used
      /\ \A h \in DOMAIN last.casBefore \ used :
           h \in DOMAIN casTrash /\ casTrash[h] = last.casBefore[h]

\* restore loaded the node it was given and its Entry, and went down the
\* Entry tree into a directory that held a file.
RestoredOnto ==
  /\ last.cmd = "restoreOnto"
  /\ nodesLoad(last.nodesBefore, last.arg).kind = "node"
  /\ LoadsAsEntry(last.casBefore, nodesLoad(last.nodesBefore, last.arg).entry)

RestoredTree ==
  last.casBefore[nodesLoad(last.nodesBefore, last.arg).entry].tree

\* The leaves of the restored tree, those whose output path was there
\* already, and those with nothing in their way: the object is in the CAS,
\* the path is free and no file sits where a directory is needed.
RestoredLeaves == {q \in DOMAIN RestoredTree : RestoredTree[q].sha1 # EmptySha1}

ConflictLeaves == {q \in RestoredLeaves : IsThere(DOMAIN last.existing, q)}

FreeLeaves ==
  {q \in RestoredLeaves \ ConflictLeaves :
     /\ RestoredTree[q].sha1 \in DOMAIN last.casBefore
     /\ \A k \in 1..(Len(q) - 1) : SubSeq(q, 1, k) \notin DOMAIN last.out}

\* C26: restore goes through every leaf of the Entry tree even after a
\* failure: a leaf whose output path exists already is reported as an error
\* and what was there is left as it was, the other leaves are written, the
\* error returned is the first one met on the way down, and the count
\* returned is the number of leaves written with the recorded size.
C26_RestoreKeepsGoing ==
  RestoredOnto =>
    /\ ConflictLeaves \subseteq last.failed
    /\ \A q \in DOMAIN last.existing :
         q \in DOMAIN last.out /\ last.out[q] = last.existing[q]
    /\ \A q \in FreeLeaves :
         /\ q \in DOMAIN last.out
         /\ last.out[q] = ObjectBytes(last.casBefore[RestoredTree[q].sha1])
    /\ last.err <=> last.failed # {}
    /\ last.err =>
         /\ last.firstErr \in last.failed
         /\ \A r \in last.failed : r # last.firstErr => ~IsPrefix(r, last.firstErr)
    /\ last.count =
         Cardinality({q \in RestoredLeaves \ DOMAIN last.existing :
                        /\ q \in DOMAIN last.out
                        /\ Len(last.out[q]) = RestoredTree[q].size})

\* restore met a leaf whose path was taken, returned an error, and still
\* wrote another leaf of the tree.
C26_Witness ==
  /\ RestoredOnto
  /\ last.err
  /\ ConflictLeaves # {}
  /\ FreeLeaves # {}
  /\ last.count >= 1

\* main has started the three stages and has not returned.
ArchiveRunning == last.cmd = "archive" /\ coord.pc \in {"loop", "wait"}

\* Each stage has closed its output channel and sent its done signal, and
\* main has received the three of them.
AllStagesDone ==
  /\ enum.pc = "done" /\ items_to_scan.closed
  /\ hash.pc = "done" /\ items_hashed.closed
  /\ arch.pc = "done" /\ entry.closed
  /\ coord.got = NbStages
  /\ done = 0

C28_EnumerateSkipsTrash ==
  /\ \A p \in nodesEnumerate(nodes) : p.depth = 0
  /\ (last.cmd = "nodes.Remove" /\ ~last.err) =>
       /\ last.arg \notin nodesEnumerate(nodes)
       /\ [last.arg EXCEPT !.depth = @ + 1] \notin nodesEnumerate(nodes)

\* One Enumerate of the CAS was read to the end, no directory failing to
\* be listed.
CasEnumerated == last.cmd = "cas.Enumerate" /\ last.failure.kind = "none"

Yielded == {last.yielded[i] : i \in 1..Len(last.yielded)}

\* C29: one Enumerate of the CAS yields every hash stored in it exactly
\* once and nothing else: no object of the trash, and not the flag file,
\* whether the flag is set or not.
C29_EnumerateYieldsEachOnce ==
  CasEnumerated =>
    /\ Yielded = DOMAIN last.casBefore
    /\ Len(last.yielded) = Cardinality(DOMAIN last.casBefore)
    /\ \A h \in Yielded : validPath(h)

\* Enumerate ran on a CAS that held an object, another one in its trash.
C29_Witness ==
  /\ CasEnumerated
  /\ DOMAIN last.casBefore # {}
  /\ DOMAIN last.trashBefore \ DOMAIN last.casBefore # {}

\* What Enumerate finds in the cas directory that is no bucket, and in the
\* buckets that is no object: the misnamed paths, and the flag file.
Misnamed(st, flag) == st.dir \cup (IF flag THEN {needFsckName} ELSE {})

\* C30: when Enumerate meets an entry of the cas directory whose name is
\* not 3 hex characters, or a file of a bucket whose name is not 37 hex
\* characters, it moves it to cas/trash, sets the fsck flag and goes on:
\* every object is yielded and stays in place.
C30_EnumerateQuarantinesStrays ==
  (CasEnumerated /\ Misnamed(last.straysBefore, last.flagBefore) # {}) =>
    /\ casStrays.dir = {}
    /\ casStrays.trash =
         last.straysBefore.trash \cup Misnamed(last.straysBefore, last.flagBefore)
    /\ needFsck
    /\ Yielded = DOMAIN last.casBefore
    /\ cas = last.casBefore
    /\ casTrash = last.trashBefore

\* CasTable.Remove(h) was called with the name of a stored object.
CasRemovedStored == last.cmd = "cas.Remove" /\ last.sha1 \in DOMAIN last.casBefore

\* Open or Remove was called with a name that is no hash.
CasCalledWithBadName ==
  last.cmd \in {"cas.Remove", "cas.Open"} /\ ~validPath(last.sha1)

\* C31: Remove(h) of a stored hash moves the object to the trash of the CAS
\* with its bytes intact and touches no other object; from then on Open(h)
\* fails, Enumerate does not yield h and a second Remove(h) is an error.
\* Open and Remove of a name that is no hash fail and change nothing.
C31_RemoveMovesToTrash ==
  /\ CasRemovedStored =>
        /\ ~last.err
        /\ cas = Drop(last.casBefore, last.sha1)
        /\ casTrash = Put(last.trashBefore, last.sha1, last.casBefore[last.sha1])
        /\ casOpen(cas, last.sha1).err
        /\ \A i \in 1..Len(casYield(cas, casTrash, NoEnumFailure)) :
               casYield(cas, casTrash, NoEnumFailure)[i] # last.sha1
        /\ casRemove(cas, casTrash, last.sha1).err
  /\ (last.cmd \in {"cas.Open", "cas.Remove"}
        /\ last.sha1 \notin DOMAIN last.casBefore) => last.err
  /\ CasCalledWithBadName =>
        /\ last.err
        /\ cas = last.casBefore
        /\ casTrash = last.trashBefore
        /\ casStrays = last.straysBefore
        /\ nodes = last.nodesBefore
        /\ needFsck = last.flagBefore

\* Remove moved one object out of a CAS that held another one.
C31_Witness ==
  /\ CasRemovedStored
  /\ ~last.err
  /\ DOMAIN cas # {}

C33_FsckFixedPoint ==
  (FsckEnded /\ ~last.err) =>
    LET again == fsckMain(cas, casTrash, nodes, NoEnumFailure) IN
      /\ again.casCorrupted = 0
      /\ again.nodesCorrupted = 0
      /\ again.cas = cas
      /\ again.trash = casTrash
      /\ again.nodes = nodes

\* A gc run with no I/O failure starts right after a fsck run has completed.
GcAfterFsck ==
  /\ FsckEnded
  /\ ~last.err
  /\ last'.cmd = "gc"
  /\ last'.failure.kind = "none"

\* The node at p decodes and names a hash that LoadEntry does not load from
\* the CAS c: the object is missing, or is no Entry.
EntryMissing(c, n, p) ==
  /\ nodesLoad(n, p).kind = "node"
  /\ validPath(nodesLoad(n, p).entry)
  /\ ~LoadsAsEntry(c, nodesLoad(n, p).entry)

C35_AddEntryReturns ==
  [](addEntry.pc = "try" => <>(addEntry.pc = "returned"))

\* The items the hasher has emitted and the archiver has not taken yet: the
\* one it is blocked sending, and those in the queue.
HashedItems ==
  (IF hash.pc = "send" THEN {hash.item} ELSE {})
    \cup {items_hashed.buf[i] : i \in 1..Len(items_hashed.buf)}

\* C36: every item the hasher emits to the archiver carries a 40-hex sha1
\* that is the SHA-1 of the bytes of the file, also when the path was
\* never seen before (its cache record was just created), whatever the
\* size and the mtime of the file.
C36_HashedItemsCarrySha1 ==
  \A it \in HashedItems :
    validPath(it.sha1) /\ it.sha1 = sha1FilePath(it.fullPath)

\* The nodes table n holds a node file that decodes and names the Entry e.
HasNodeFor(n, e) ==
  \E p \in DOMAIN n :
    /\ p.depth = 0
    /\ p.dir = "month"
    /\ n[p] = NodeFile(e)

\* C37: when NodesTable.AddEntry fails after the archiver has emitted the
\* Entry hash, the archive run reports an error: a run that received the
\* Entry hash and ended with exit code 0 has its node in the nodes table.
C37_AddEntryFailureIsReported ==
  (ArchiveEnded /\ last.added /\ last.exitCode = 0) =>
    HasNodeFor(nodes, last.sha1)

\* A command other than archive started with the fsck flag set.
StartedWithFlag(cmd) == last.cmd = cmd /\ last.flagBefore

\* C38: gc refuses to run while the fsck flag is set: it returns an error
\* and changes nothing in the CAS or in the nodes table, the flag staying
\* set.  fsck, restore and archive run with the flag set: fsck completes
\* and clears it, restore gives what it gives on the same store with the
\* flag clear, and an archive run that read its list file and in which
\* nothing fails adds its node.
C38_GcRefusedWhileFlagSet ==
  /\ StartedWithFlag("gc") =>
        /\ last.err
        /\ last.exitCode = 1
        /\ cas = last.casBefore
        /\ casTrash = last.trashBefore
        /\ casStrays = last.straysBefore
        /\ nodes = last.nodesBefore
        /\ needFsck
  /\ (StartedWithFlag("fsck") /\ last.failure.kind = "none") =>
        ~last.err /\ ~needFsck
  /\ StartedWithFlag("restore") =>
        LET r == restoreMain(last.casBefore, last.nodesBefore, last.arg) IN
          last.err = r.err /\ last.out = r.out /\ last.count = r.count
  /\ (StartedWithFlag("archive") /\ ArchiveEnded /\ inputs # <<>>
        /\ stats.errors = 0 /\ faults = last.faultsBefore) =>
        last.added /\ HasNodeFor(nodes, last.sha1)

\* gc was refused on a store that held an object no node refers to, which
\* a gc with the flag clear sweeps.
C38_Witness ==
  /\ StartedWithFlag("gc")
  /\ DOMAIN last.casBefore \ Referenced(last.casBefore, last.nodesBefore) # {}
  /\ \A p \in nodesEnumerate(last.nodesBefore) :
        ~gcNodeFails(last.casBefore, last.nodesBefore, p)

\* The counters of the Stats of the run, at any point of it.
StatsInOrder ==
  /\ stats.nbHashed + stats.nbNotHashed <= stats.found
  /\ stats.nbArchived + stats.nbNotArchived
       <= stats.nbHashed + stats.nbNotHashed + 1
  /\ (ArchiveEnded /\ inputs # <<>> /\ ~interrupted /\ stats.errors = 0) =>
        /\ stats.nbHashed + stats.nbNotHashed = stats.found
        /\ stats.nbArchived + stats.nbNotArchived = stats.found + 1

\* The archiver takes an item from the hasher, or finds the channel closed
\* and stores the manifest: a step of its select that is not the interrupt.
ArchiverHandles ==
  /\ arch.pc = "select"
  /\ arch' # arch
  /\ stats'.interrupted = stats.interrupted

\* C39: at every point of an archive run nbHashed + nbNotHashed <= found
\* and nbArchived + nbNotArchived <= nbHashed + nbNotHashed + 1; every item
\* the archiver receives, and the final manifest, adds one to exactly one
\* of archived, not archived and errors; and when a run that was not
\* interrupted and met no error ends, nbHashed + nbNotHashed = found and
\* nbArchived + nbNotArchived = found + 1.
C39_StatsAddUp ==
  /\ []StatsInOrder
  /\ [][ArchiverHandles =>
          /\ (stats'.nbArchived - stats.nbArchived)
               + (stats'.nbNotArchived - stats.nbNotArchived)
               + (stats'.errors - stats.errors) = 1
          /\ stats'.nbArchived >= stats.nbArchived
          /\ stats'.nbNotArchived >= stats.nbNotArchived
          /\ stats'.errors >= stats.errors
          /\ stats'.found = stats.found
          /\ stats'.nbHashed = stats.nbHashed
          /\ stats'.nbNotHashed = stats.nbNotHashed]_vars

\* A run over a directory ended with no error and no interrupt, the
\* manifest counted after the files.
C39_Witness ==
  /\ ArchiveEnded
  /\ ~interrupted
  /\ stats.errors = 0
  /\ stats.found >= 2
  /\ stats.nbArchived + stats.nbNotArchived = stats.found + 1

\* s is a subsequence of t: the elements of s are found in t in the order
\* of s, each at a place of its own.
RECURSIVE IsSubseq(_, _)
IsSubseq(s, t) ==
  IF s = <<>> THEN TRUE
  ELSE IF t = <<>> THEN FALSE
  ELSE IF Head(s) = Head(t) THEN IsSubseq(Tail(s), Tail(t))
  ELSE IsSubseq(s, Tail(t))

====
